---- MODULE Spec2Model ----
(***************************************************************************)
(* A model of .github/scripts/analyze_benchmark.py (class                  *)
(* BenchmarkAnalyzer): the regression classifier, the baseline calculator, *)
(* the metric normaliser and the path guard.                               *)
(*                                                                         *)
(* Numbers.  Throughput figures are integers.  Every derived figure        *)
(* (median, change_pct) is an exact rational <<n, d>> with d > 0.  A       *)
(* standard deviation is the non-negative square root of a rational and is *)
(* carried as its radicand, [sq |-> <<n, d>>]: for x >= 0,                 *)
(* x > c * sqrt(q) iff x^2 > c^2 * q, so every comparison the code makes   *)
(* on a stddev is made exactly on the radicand.                            *)
(***************************************************************************)
EXTENDS Integers, Sequences, FiniteSets, TLC

VARIABLES
    regression_threshold,   \* self.regression_threshold, a rational
    current_results,        \* self.current_results: insertion-ordered dict, a sequence of [config, metrics]
    historical_results,     \* self.historical_results: list of [config, metrics]
    regressions,            \* the value detect_regressions returned, or None
    pc,                     \* "loading" until detect_regressions has run, then "classified"
    fs,                     \* the file system: canonical path -> node
    call,                   \* the last call of a path guard or loader: arguments, result, effects
    safe_output_file        \* run's validated markdown output path, once it has one

analysisVars == <<regression_threshold, current_results, historical_results, regressions, pc>>
fsVars == <<fs, call, safe_output_file>>
vars == <<analysisVars, fsVars>>

----------------------------------------------------------------------------
(* Exact rational arithmetic.                                              *)

Rat(n) == <<n, 1>>
RNorm(q) == IF q[2] < 0 THEN <<0 - q[1], 0 - q[2]>> ELSE q
REq(a, b) == a[1] * b[2] = b[1] * a[2]
RLt(a, b) == a[1] * b[2] < b[1] * a[2]
RSub(a, b) == <<a[1] * b[2] - b[1] * a[2], a[2] * b[2]>>
RMul(a, b) == <<a[1] * b[1], a[2] * b[2]>>
RDiv(a, b) == RNorm(<<a[1] * b[2], a[2] * b[1]>>)
RNeg(a) == <<0 - a[1], a[2]>>
RAbs(a) == IF a[1] < 0 THEN RNeg(a) ELSE a
RIsZero(a) == a[1] = 0

----------------------------------------------------------------------------
(* Python dicts: a function whose DOMAIN is the set of keys.               *)

EmptyDict == [k \in {} |-> 0]
Has(d, k) == k \in DOMAIN d
Get(d, k, default) == IF k \in DOMAIN d THEN d[k] ELSE default

\* the op_data object of a result document that gives a throughput and a sample count
OpData(t, n) == [throughput |-> t, samples |-> n]

\* self.current_results, a dict in insertion order: a sequence of [config, metrics]
\* results[config_name] = parsed
RECURSIVE DictSet(_, _, _)
DictSet(items, config, metrics) ==
    IF items = <<>> THEN <<[config |-> config, metrics |-> metrics]>>
    ELSE IF Head(items).config = config
    THEN <<[config |-> config, metrics |-> metrics]>> \o Tail(items)
    ELSE <<Head(items)>> \o DictSet(Tail(items), config, metrics)

DictKeys(items) == {items[i].config : i \in 1..Len(items)}
DictGet(items, config) == (CHOOSE i \in 1..Len(items) : items[i].config = config)

----------------------------------------------------------------------------
(* _parse_benchmark_data                                                   *)

\* the seven fields of one parsed operation, each defaulted to 0
ParseOperation(op_data) ==
    [throughput    |-> Get(op_data, "throughput", 0),
     total_time_ms |-> Get(op_data, "total_time_ms", 0),
     avg_time_ns   |-> Get(op_data, "avg_time_ns", 0),
     p50_ns        |-> Get(op_data, "p50_ns", 0),
     p95_ns        |-> Get(op_data, "p95_ns", 0),
     p99_ns        |-> Get(op_data, "p99_ns", 0),
     samples       |-> Get(op_data, "samples", 0)]

\* the plural key of the document that feeds each canonical operation
operation_map == [create |-> "creates", read |-> "reads", update |-> "updates", delete |-> "deletes"]

\* if plural_key in data: metrics[singular_key] = {...}
ParsedOperation(data, singular_key) ==
    IF Has(data, operation_map[singular_key])
    THEN ParseOperation(data[operation_map[singular_key]])
    ELSE EmptyDict

_parse_benchmark_data(data) ==
    [create   |-> ParsedOperation(data, "create"),
     read     |-> ParsedOperation(data, "read"),
     update   |-> ParsedOperation(data, "update"),
     delete   |-> ParsedOperation(data, "delete"),
     scans    |-> Get(data, "scans", EmptyDict),
     metadata |-> Get(data, "metadata", EmptyDict)]

----------------------------------------------------------------------------
(* statistics.median and statistics.stdev                                  *)

RECURSIVE Insert(_, _)
Insert(x, s) ==
    IF s = <<>> THEN <<x>>
    ELSE IF x <= Head(s) THEN <<x>> \o s
    ELSE <<Head(s)>> \o Insert(x, Tail(s))

RECURSIVE sorted(_)
sorted(s) == IF s = <<>> THEN <<>> ELSE Insert(Head(s), sorted(Tail(s)))

RECURSIVE Sum(_)
Sum(s) == IF s = <<>> THEN 0 ELSE Head(s) + Sum(Tail(s))

RECURSIVE SumSq(_)
SumSq(s) == IF s = <<>> THEN 0 ELSE Head(s) * Head(s) + SumSq(Tail(s))

\* a median that takes the middle of the values in the order they come
median_Unsorted(values) ==
    LET n == Len(values)
        i == n \div 2
    IN  IF n % 2 = 1 THEN Rat(values[i + 1]) ELSE <<values[i] + values[i + 1], 2>>

\* statistics.median: the middle value, or the mean of the two middle values
median(values) ==
    LET data == sorted(values)
        n == Len(data)
        i == n \div 2
    IN  IF n % 2 = 1 THEN Rat(data[i + 1]) ELSE <<data[i] + data[i + 1], 2>>

\* statistics.variance: sum((x - mean)^2) / (n - 1), for n >= 2
variance(values) ==
    LET n == Len(values)
    IN  <<n * SumSq(values) - Sum(values) * Sum(values), n * (n - 1)>>

\* a stdev of the population: sum((x - mean)^2) / n
stdev_Population(values) ==
    LET n == Len(values)
    IN  [sq |-> <<n * SumSq(values) - Sum(values) * Sum(values), n * n>>]

\* statistics.stdev: the square root of the sample variance, carried as its radicand
stdev(values) == [sq |-> variance(values)]

ZeroStddev == [sq |-> Rat(0)]

----------------------------------------------------------------------------
(* calculate_baseline                                                      *)

RECURSIVE BaselineValues(_, _, _, _)
BaselineValues(hist, config, operation, metric) ==
    IF hist = <<>> THEN <<>>
    ELSE LET result == Head(hist)
             op_data == Get(result.metrics, operation, EmptyDict)
             rest == BaselineValues(Tail(hist), config, operation, metric)
         IN  IF result.config = config /\ Has(op_data, metric)
             THEN <<op_data[metric]>> \o rest
             ELSE rest

\* Optional[Tuple[float, float]]: <<>> is None, otherwise <<median, stddev>>
NoBaseline == <<>>

\* a calculate_baseline that answers an empty set of values with a zero-valued baseline
calculate_baseline_ZeroForEmpty(hist, config, operation, metric) ==
    LET values == BaselineValues(hist, config, operation, metric)
    IN  IF values = <<>> THEN <<Rat(0), ZeroStddev>>
        ELSE <<median(values), IF Len(values) > 1 THEN stdev(values) ELSE ZeroStddev>>

calculate_baseline(hist, config, operation, metric) ==
    LET values == BaselineValues(hist, config, operation, metric)
    IN  IF values = <<>> THEN NoBaseline
        ELSE <<median(values), IF Len(values) > 1 THEN stdev(values) ELSE ZeroStddev>>

----------------------------------------------------------------------------
(* _test_significance                                                      *)

ZTestExceeds(current, baseline, stddev) ==
    \* abs(current - baseline) / stddev > 1.96, 1.96 = 49/25, squared on both sides
    LET d == RSub(current, baseline)
    IN  RLt(RMul(Rat(49 * 49), stddev.sq), RMul(Rat(25 * 25), RMul(d, d)))

\* a _test_significance that counts a z-score of exactly 1.96 as significant
_test_significance_AtLeast(current, baseline, stddev) ==
    IF RIsZero(stddev.sq)
    THEN RLt(Rat(0), RAbs(RSub(current, baseline)))
    ELSE ~RLt(RMul(Rat(25 * 25), RMul(RSub(current, baseline), RSub(current, baseline))),
              RMul(Rat(49 * 49), stddev.sq))

_test_significance(current, baseline, stddev) ==
    IF RIsZero(stddev.sq)
    THEN RLt(Rat(0), RAbs(RSub(current, baseline)))
    ELSE ZTestExceeds(current, baseline, stddev)

----------------------------------------------------------------------------
(* detect_regressions                                                      *)

Operations == <<"create", "read", "update", "delete">>

\* a Python value is falsy when it is 0 (or None, or an empty dict)
Truthy(x) == x # 0

Skipped == [list |-> "none"]

\* ((current_throughput - baseline_throughput) / baseline_throughput) * 100
ChangePct(current_throughput, baseline_throughput) ==
    RMul(RDiv(RSub(Rat(current_throughput), baseline_throughput), baseline_throughput),
         Rat(100))

\* an IsRegression that counts a change of exactly -threshold * 100 as a regression
IsRegression_AtThreshold(change_pct, threshold) ==
    ~RLt(RNeg(RMul(threshold, Rat(100))), change_pct)

\* change_pct < -(self.regression_threshold * 100)
IsRegression(change_pct, threshold) == RLt(change_pct, RNeg(RMul(threshold, Rat(100))))

\* change_pct > (self.regression_threshold * 100)
IsImprovement(change_pct, threshold) == RLt(RMul(threshold, Rat(100)), change_pct)

\* the body of the inner loop: the list the record goes to and the entry appended
ClassifyOperation(config, metrics, operation, hist, threshold) ==
    IF ~Has(metrics, operation) \/ DOMAIN metrics[operation] = {} THEN Skipped
    ELSE IF ~Truthy(Get(metrics[operation], "samples", 0)) THEN Skipped
    ELSE LET current_throughput == Get(metrics[operation], "throughput", 0) IN
    IF current_throughput = 0 THEN Skipped
    ELSE LET baseline == calculate_baseline(hist, config, operation, "throughput") IN
    IF baseline = NoBaseline
    THEN [list |-> "stable",
          entry |-> [config |-> config, operation |-> operation,
                     status |-> "no_baseline",
                     current_throughput |-> current_throughput]]
    ELSE LET baseline_throughput == baseline[1]
             stddev == baseline[2]
         IN
    IF RIsZero(baseline_throughput) THEN Skipped
    ELSE LET change_pct == ChangePct(current_throughput, baseline_throughput) IN
    IF IsRegression(change_pct, threshold)
    THEN [list |-> "detected",
          entry |-> [config |-> config, operation |-> operation,
                     current_throughput |-> current_throughput,
                     baseline_throughput |-> baseline_throughput,
                     change_pct |-> change_pct,
                     significant |-> _test_significance(Rat(current_throughput),
                                                        baseline_throughput, stddev)]]
    ELSE IF IsImprovement(change_pct, threshold)
    THEN [list |-> "improvements",
          entry |-> [config |-> config, operation |-> operation,
                     current_throughput |-> current_throughput,
                     baseline_throughput |-> baseline_throughput,
                     change_pct |-> change_pct]]
    ELSE [list |-> "stable",
          entry |-> [config |-> config, operation |-> operation,
                     current_throughput |-> current_throughput,
                     baseline_throughput |-> baseline_throughput,
                     change_pct |-> change_pct]]

\* an append that puts a significance flag on every entry
Append3_Flagged(acc, c) ==
    IF c.list = "none" THEN acc
    ELSE [acc EXCEPT ![c.list] = Append(@, c.entry @@ [significant |-> FALSE])]

\* an append that reports a regression that is not significant as stable
Append3_SignificantOnly(acc, c) ==
    IF c.list = "none" THEN acc
    ELSE IF c.list = "detected" /\ ~c.entry.significant
    THEN [acc EXCEPT !.stable = Append(@, c.entry)]
    ELSE [acc EXCEPT ![c.list] = Append(@, c.entry)]

\* regressions[list].append(entry), or the continue that appends nothing
Append3(acc, c) ==
    IF c.list = "none" THEN acc
    ELSE [acc EXCEPT ![c.list] = Append(@, c.entry)]

\* the inner loop over the four operations of one configuration, from operation i on
RECURSIVE DetectOperations(_, _, _, _, _, _)
DetectOperations(acc, config, metrics, i, hist, threshold) ==
    IF i > Len(Operations) THEN acc
    ELSE DetectOperations(
             Append3(acc, ClassifyOperation(config, metrics, Operations[i], hist, threshold)),
             config, metrics, i + 1, hist, threshold)

\* the outer loop over current_results.items(), in insertion order
RECURSIVE DetectConfigs(_, _, _, _)
DetectConfigs(acc, items, hist, threshold) ==
    IF items = <<>> THEN acc
    ELSE DetectConfigs(
             DetectOperations(acc, Head(items).config, Head(items).metrics, 1, hist, threshold),
             Tail(items), hist, threshold)

NoRegressions == [detected |-> <<>>, improvements |-> <<>>, stable |-> <<>>]

detect_regressions(current, hist, threshold) ==
    DetectConfigs(NoRegressions, current, hist, threshold)

----------------------------------------------------------------------------
(* Inputs of the classifier: result documents as json.load returns them.   *)

MaxHist == 3

DefaultThreshold == <<15, 100>>
Thresholds == {DefaultThreshold, Rat(0)}

Configs == {<<"memory">>, <<"rocksdb">>}

\* documents of historical runs
HistDocs ==
    {[creates |-> OpData(t, 10)] : t \in {75, 100, 125}}
    \cup {[creates |-> OpData(0, 10)],
          [creates |-> [total_time_ms |-> 5]],
          [deletes |-> OpData(100, 10)]}

HistInputs == [config : {<<"memory">>}, data : HistDocs]
              \cup [config : {<<"rocksdb">>}, data : {[creates |-> OpData(100, 10)]}]

\* documents of the current run
CurDocs ==
    {[creates |-> OpData(t, 10)] : t \in {0, 50, 51, 85, 100, 115, 125}}
    \cup {[creates |-> OpData(100, 0)],
          [creates |-> [throughput |-> 100]],
          [reads |-> OpData(85, 10), deletes |-> OpData(85, 10)]}

CurInputs == [config : {<<"memory">>}, data : CurDocs]
             \cup [config : {<<"rocksdb">>}, data : {[creates |-> OpData(85, 10)]}]

----------------------------------------------------------------------------
(* The file system.  A name is a sequence of tokens (<<"result-", "a",     *)
(* ".json">> is result-a.json), a path is the sequence of the names from   *)
(* the root; <<"..">> is the parent name.  fs maps the canonical path of   *)
(* every node to [kind |-> "dir"], [kind |-> "file", content |-> c],       *)
(* [kind |-> "link", target |-> [abs |-> BOOLEAN, parts |-> path]] or      *)
(* [kind |-> "none"].                                                      *)

ParentName == <<"..">>
RootPath == <<>>

NoNode == [kind |-> "none"]
DirNode == [kind |-> "dir"]
FileNode(c) == [kind |-> "file", content |-> c]
LinkNode(abs, parts) == [kind |-> "link", target |-> [abs |-> abs, parts |-> parts]]

NoFiles == [p \in {RootPath} |-> DirNode]
NoCall == [fn |-> "none"]
NoPath == [kind |-> "None"]

\* os.lstat, on a path no component of which is a symbolic link
Lookup(fsys, path) ==
    IF path = RootPath THEN DirNode
    ELSE IF path \in DOMAIN fsys THEN fsys[path]
    ELSE NoNode

Front(path) == SubSeq(path, 1, Len(path) - 1)
Last(path) == path[Len(path)]

Resolved(path) == [ok |-> TRUE, path |-> path]
Errno(e) == [ok |-> FALSE, errno |-> e]

\* posixpath._joinrealpath, strict: `path` is resolved already, `rest` are the
\* components still to walk, `active` the links whose resolution is under way
RECURSIVE JoinRealPath(_, _, _, _)
JoinRealPath(fsys, path, rest, active) ==
    IF rest = <<>> THEN Resolved(path)
    ELSE IF Head(rest) = ParentName
    THEN JoinRealPath(fsys, IF path = RootPath THEN RootPath ELSE Front(path), Tail(rest), active)
    ELSE LET newpath == Append(path, Head(rest))
             node == Lookup(fsys, newpath)
         IN  IF Lookup(fsys, path).kind = "file" THEN Errno("ENOTDIR")
             ELSE IF Lookup(fsys, path).kind = "none" \/ node.kind = "none" THEN Errno("ENOENT")
             ELSE IF node.kind # "link" THEN JoinRealPath(fsys, newpath, Tail(rest), active)
             ELSE IF newpath \in active THEN Errno("ELOOP")
             ELSE LET r == JoinRealPath(fsys,
                                        IF node.target.abs THEN RootPath ELSE path,
                                        node.target.parts, active \cup {newpath})
                  IN  IF r.ok THEN JoinRealPath(fsys, r.path, Tail(rest), active) ELSE r

realpath(fsys, path) == JoinRealPath(fsys, RootPath, path, {})

\* the exception Path.resolve(strict=True) raises for a symlink loop: RuntimeError up to
\* Python 3.12, OSError from 3.13 on; the script accepts every Python >= 3.9
LoopExceptions == {"RuntimeError", "OSError"}

\* Path.resolve(strict=True): the resolved path, or the exception raised
resolve_strict(fsys, path, loop_exc) ==
    LET r == realpath(fsys, path)
    IN  IF r.ok THEN [kind |-> "path", path |-> r.path]
        ELSE IF r.errno = "ELOOP" THEN [kind |-> "raise", exc |-> loop_exc]
        ELSE [kind |-> "raise", exc |-> "OSError"]

\* PurePath.is_relative_to: other's parts are a prefix of path's parts
is_relative_to(path, other) ==
    /\ Len(other) <= Len(path)
    /\ SubSeq(path, 1, Len(other)) = other

ReturnNone == [kind |-> "None"]

\* a _validate_and_resolve_input_path that compares the paths as given, unresolved
_validate_and_resolve_input_path_Raw(fsys, file_path, base_dir, loop_exc) ==
    LET resolved_file == resolve_strict(fsys, file_path, loop_exc)
        resolved_base == resolve_strict(fsys, base_dir, loop_exc)
    IN  IF resolved_file.kind = "raise"
        THEN IF resolved_file.exc \in {"OSError", "ValueError"} THEN ReturnNone ELSE resolved_file
        ELSE IF resolved_base.kind = "raise"
        THEN IF resolved_base.exc \in {"OSError", "ValueError"} THEN ReturnNone ELSE resolved_base
        ELSE IF ~is_relative_to(file_path, base_dir) THEN ReturnNone
        ELSE resolved_file

\* a _validate_and_resolve_input_path that checks where the candidate itself lies,
\* not where it leads
_validate_and_resolve_input_path_Location(fsys, file_path, base_dir, loop_exc) ==
    LET resolved_file == resolve_strict(fsys, file_path, loop_exc)
        resolved_base == resolve_strict(fsys, base_dir, loop_exc)
        resolved_parent == resolve_strict(fsys, Front(file_path), loop_exc)
    IN  IF resolved_file.kind = "raise"
        THEN IF resolved_file.exc \in {"OSError", "ValueError"} THEN ReturnNone ELSE resolved_file
        ELSE IF resolved_base.kind = "raise"
        THEN IF resolved_base.exc \in {"OSError", "ValueError"} THEN ReturnNone ELSE resolved_base
        ELSE IF ~is_relative_to(resolved_parent.path, resolved_base.path) THEN ReturnNone
        ELSE resolved_file

\* the value returned ([kind |-> "path"] or [kind |-> "None"]) or the exception that
\* leaves the function ([kind |-> "raise"]): the except clause catches OSError and ValueError
_validate_and_resolve_input_path(fsys, file_path, base_dir, loop_exc) ==
    LET resolved_file == resolve_strict(fsys, file_path, loop_exc)
        resolved_base == resolve_strict(fsys, base_dir, loop_exc)
    IN  IF resolved_file.kind = "raise"
        THEN IF resolved_file.exc \in {"OSError", "ValueError"} THEN ReturnNone ELSE resolved_file
        ELSE IF resolved_base.kind = "raise"
        THEN IF resolved_base.exc \in {"OSError", "ValueError"} THEN ReturnNone ELSE resolved_base
        ELSE IF ~is_relative_to(resolved_file.path, resolved_base.path) THEN ReturnNone
        ELSE resolved_file

----------------------------------------------------------------------------
(* _validate_output_path                                                   *)

\* posixpath._joinrealpath, not strict: a component that is missing, or below a regular
\* file, is kept as it is written; a symbolic link loop ends the walk with the loop's
\* path and the components left
RECURSIVE JoinRealPathLax(_, _, _, _)
JoinRealPathLax(fsys, path, rest, active) ==
    IF rest = <<>> THEN Resolved(path)
    ELSE IF Head(rest) = ParentName
    THEN JoinRealPathLax(fsys, IF path = RootPath THEN RootPath ELSE Front(path),
                         Tail(rest), active)
    ELSE LET newpath == Append(path, Head(rest))
             node == Lookup(fsys, newpath)
         IN  IF node.kind # "link" THEN JoinRealPathLax(fsys, newpath, Tail(rest), active)
             ELSE IF newpath \in active THEN [ok |-> FALSE, path |-> newpath \o Tail(rest)]
             ELSE LET r == JoinRealPathLax(fsys,
                                           IF node.target.abs THEN RootPath ELSE path,
                                           node.target.parts, active \cup {newpath})
                  IN  IF r.ok THEN JoinRealPathLax(fsys, r.path, Tail(rest), active)
                      ELSE [ok |-> FALSE, path |-> r.path \o Tail(rest)]

\* Path.resolve(): a relative path is taken from the working directory; a symbolic link
\* loop raises RuntimeError up to Python 3.12 and is left unresolved from 3.13 on
resolve(fsys, cwd, file_path, loop_exc) ==
    LET r == JoinRealPathLax(fsys, RootPath,
                             IF file_path.abs THEN file_path.parts ELSE cwd \o file_path.parts,
                             {})
    IN  IF r.ok \/ loop_exc = "OSError" THEN [kind |-> "path", path |-> r.path]
        ELSE [kind |-> "raise", exc |-> "RuntimeError"]

\* PurePath.relative_to(other) succeeds: other's parts are a prefix of the path's
relative_to(path, other) == is_relative_to(path, other)

\* os.mkdir(path) done
MakeDir(fsys, path) == [q \in DOMAIN fsys \cup {path} |-> IF q = path THEN DirNode ELSE fsys[q]]

\* Path.mkdir(parents=True, exist_ok=True): the file system after it, or the OSError
RECURSIVE mkdir(_, _)
mkdir(fsys, path) ==
    LET parent == realpath(fsys, Front(path))
    IN  IF path = RootPath THEN [ok |-> TRUE, fs |-> fsys]
        ELSE IF ~parent.ok /\ parent.errno = "ENOENT"
        THEN LET made == mkdir(fsys, Front(path))
             IN  IF made.ok THEN [ok |-> TRUE, fs |-> MakeDir(made.fs, path)] ELSE made
        ELSE IF ~parent.ok
        THEN [ok |-> FALSE,
              exc |-> IF parent.errno = "ENOTDIR" THEN "NotADirectoryError" ELSE "OSError"]
        ELSE IF Lookup(fsys, parent.path).kind # "dir"
        THEN [ok |-> FALSE, exc |-> "NotADirectoryError"]
        ELSE IF Lookup(fsys, Append(parent.path, Last(path))).kind = "none"
        THEN [ok |-> TRUE, fs |-> MakeDir(fsys, Append(parent.path, Last(path)))]
        ELSE IF realpath(fsys, path).ok /\ Lookup(fsys, realpath(fsys, path).path).kind = "dir"
        THEN [ok |-> TRUE, fs |-> fsys]
        ELSE [ok |-> FALSE, exc |-> "FileExistsError"]

\* a _validate_output_path without the relative_to check
_validate_output_path_Unchecked(fsys, cwd, file_path, loop_exc) ==
    LET resolved == resolve(fsys, cwd, file_path, loop_exc)
        made == mkdir(fsys, Front(resolved.path))
    IN  IF resolved.kind = "raise" THEN [ret |-> resolved, fs |-> fsys]
        ELSE IF resolved.path = RootPath THEN [ret |-> resolved, fs |-> fsys]
        ELSE IF ~made.ok THEN [ret |-> [kind |-> "raise", exc |-> made.exc], fs |-> fsys]
        ELSE [ret |-> resolved, fs |-> made.fs]

\* a validator that makes the parent directories before it looks where the path lies
_validate_output_path_MkdirFirst(fsys, cwd, file_path, loop_exc) ==
    LET resolved == resolve(fsys, cwd, file_path, loop_exc)
        made == mkdir(fsys, Front(resolved.path))
    IN  IF resolved.kind = "raise" THEN [ret |-> resolved, fs |-> fsys]
        ELSE IF resolved.path = RootPath THEN [ret |-> resolved, fs |-> fsys]
        ELSE IF ~made.ok THEN [ret |-> [kind |-> "raise", exc |-> made.exc], fs |-> fsys]
        ELSE IF ~relative_to(resolved.path, realpath(fsys, cwd).path)
        THEN [ret |-> [kind |-> "raise", exc |-> "ValueError"], fs |-> made.fs]
        ELSE [ret |-> resolved, fs |-> made.fs]

\* the path returned or the exception raised, and the file system left behind
_validate_output_path(fsys, cwd, file_path, loop_exc) ==
    LET resolved == resolve(fsys, cwd, file_path, loop_exc)
        made == mkdir(fsys, Front(resolved.path))
    IN  IF resolved.kind = "raise" THEN [ret |-> resolved, fs |-> fsys]
        ELSE IF ~relative_to(resolved.path, realpath(fsys, cwd).path)
        THEN [ret |-> [kind |-> "raise", exc |-> "ValueError"], fs |-> fsys]
        ELSE IF resolved.path = RootPath THEN [ret |-> resolved, fs |-> fsys]
        ELSE IF ~made.ok THEN [ret |-> [kind |-> "raise", exc |-> made.exc], fs |-> fsys]
        ELSE [ret |-> resolved, fs |-> made.fs]

----------------------------------------------------------------------------
(* Directory listings, file contents and file names.                       *)

\* what json.load makes of a file: a document, or a JSONDecodeError
Json(data) == [valid |-> TRUE, type |-> "object", data |-> data]
Malformed == [valid |-> FALSE]

\* documents that are valid JSON and no object: the array [] and the number 5
JsonArray == [valid |-> TRUE, type |-> "array", data |-> <<>>]
JsonNumber == [valid |-> TRUE, type |-> "number", data |-> <<>>]

\* `key in data` as _parse_benchmark_data asks it: an object answers for its keys, the
\* array has no member that is a key
Members(content) == IF content.type = "object" THEN content.data ELSE EmptyDict

DocA == [creates |-> OpData(100, 10)]
DocB == [creates |-> OpData(85, 10)]

\* the entries of the directory `dir` leads to, as the paths glob yields: dir / name
Entries(fsys, dir) ==
    LET r == realpath(fsys, dir)
    IN  IF ~r.ok THEN {}
        ELSE {Append(dir, Last(q)) : q \in {q \in DOMAIN fsys :
                 /\ Len(q) = Len(r.path) + 1
                 /\ Front(q) = r.path
                 /\ fsys[q].kind # "none"}}

\* dir.glob("*.json")
GlobJson(fsys, dir) == {q \in Entries(fsys, dir) : Last(Last(q)) = ".json"}

\* Path.is_dir: follows symbolic links, False when the path does not resolve
is_dir(fsys, path) ==
    /\ realpath(fsys, path).ok
    /\ Lookup(fsys, realpath(fsys, path).path).kind = "dir"

\* the order in which a directory listing comes is not specified: `priority` is a
\* sequence of names, and a listing comes in the order of its names in it
Position(priority, name) == CHOOSE i \in 1..Len(priority) : priority[i] = name

RECURSIVE Listing(_, _)
Listing(paths, priority) ==
    IF paths = {} THEN <<>>
    ELSE LET first == CHOOSE q \in paths : \A o \in paths :
                          Position(priority, Last(q)) <= Position(priority, Last(o))
         IN  <<first>> \o Listing(paths \ {first}, priority)

\* PurePath.stem: the final name without its last suffix
stem(path) ==
    LET name == Last(path)
    IN  IF Len(name) > 1 /\ name[Len(name)] \in {".json", ".txt"}
        THEN SubSeq(name, 1, Len(name) - 1)
        ELSE name

IsNotResultPrefix(token) == token # "result-"

\* json_path.stem.replace('result-', ''): every occurrence is removed
_extract_config_name(json_path) == SelectSeq(stem(json_path), IsNotResultPrefix)

----------------------------------------------------------------------------
(* load_current_results                                                    *)

Warn(acc, kind, path) == [acc EXCEPT !.warnings = Append(@, [kind |-> kind, path |-> path])]

Opened(acc, json_file, safe_path) ==
    [acc EXCEPT !.opened = Append(@, [via |-> json_file, path |-> safe_path])]

\* the body of the loop, for one json_file: every exception is caught and warned
LoadCurrentFile(fsys, results_dir, json_file, acc, loop_exc) ==
    LET safe_path == _validate_and_resolve_input_path(fsys, json_file, results_dir, loop_exc)
    IN  IF safe_path.kind = "raise" THEN Warn(acc, "failed", json_file)
        ELSE IF safe_path.kind = "None" THEN Warn(acc, "outside", json_file)
        ELSE IF Lookup(fsys, safe_path.path).kind # "file" THEN Warn(acc, "failed", json_file)
        ELSE IF ~Lookup(fsys, safe_path.path).content.valid
        THEN Warn(Opened(acc, json_file, safe_path.path), "failed", json_file)
        ELSE IF Lookup(fsys, safe_path.path).content.type = "number"
        THEN Warn(Opened(acc, json_file, safe_path.path), "failed", json_file)
        ELSE [Opened(acc, json_file, safe_path.path) EXCEPT
                  !.ret = DictSet(@, _extract_config_name(json_file),
                                  _parse_benchmark_data(Members(Lookup(fsys, safe_path.path).content)))]

RECURSIVE LoadCurrentFiles(_, _, _, _, _)
LoadCurrentFiles(fsys, results_dir, json_files, acc, loop_exc) ==
    IF json_files = <<>> THEN acc
    ELSE LoadCurrentFiles(fsys, results_dir, Tail(json_files),
                          LoadCurrentFile(fsys, results_dir, Head(json_files), acc, loop_exc),
                          loop_exc)

\* the dict returned, the files opened and the warnings printed
load_current_results(fsys, results_dir, priority, loop_exc) ==
    LoadCurrentFiles(fsys, results_dir, Listing(GlobJson(fsys, results_dir), priority),
                     [ret |-> <<>>, opened |-> <<>>, warnings |-> <<>>, listed |-> <<results_dir>>],
                     loop_exc)

----------------------------------------------------------------------------
(* load_historical_results                                                 *)

HistoricalDays == 30

\* datetime.strptime(name, "%Y-%m-%d") on the directory names of the model: the day of
\* the year 2024 (2024-03-10 is day 70), or a ValueError
strptime(name) ==
    CASE name = <<"2024-03-10">> -> [ok |-> TRUE, day |-> 70]
      [] name = <<"2024-03-09">> -> [ok |-> TRUE, day |-> 69]
      [] name = <<"2024-02-09">> -> [ok |-> TRUE, day |-> 40]
      [] name = <<"2024-01-05">> -> [ok |-> TRUE, day |-> 5]
      [] name = <<"2024-1-05">> -> [ok |-> TRUE, day |-> 5]
      [] OTHER -> [ok |-> FALSE]

\* the historical root of the run and the names of its directories
ResultsName == <<"results">>
HistoricalDir == <<ResultsName>>
Today == <<"2024-03-10">>
Yesterday == <<"2024-03-09">>
Boundary == <<"2024-02-09">>
LongAgo == <<"2024-01-05">>
Unpadded == <<"2024-1-05">>
Latest == <<"latest">>

\* the directory names of the model in ascending string order, as sorted() compares them
NamesAscending == <<LongAgo, Boundary, Yesterday, Today, Unpadded, Latest>>

\* sorted(paths, reverse=True)
RECURSIVE SortedDescending(_)
SortedDescending(paths) ==
    IF paths = {} THEN <<>>
    ELSE LET first == CHOOSE q \in paths : \A o \in paths :
                          Position(NamesAscending, Last(q)) >= Position(NamesAscending, Last(o))
         IN  <<first>> \o SortedDescending(paths \ {first})

\* a comparison of the calendar days alone, as of dir_date.date() < cutoff_date.date()
BeforeCutoff_DayOnly(day, now) == day < now.day - HistoricalDays

\* dir_date < cutoff_date, cutoff_date = datetime.now() - timedelta(days=historical_days):
\* dir_date is a midnight, now has a time of day unless the run starts at midnight sharp
BeforeCutoff(day, now) ==
    \/ day < now.day - HistoricalDays
    \/ day = now.day - HistoricalDays /\ ~now.midnight

\* the loop over the files with each file validated against the historical root, the
\* parent of the date directory, and not against the date directory
RECURSIVE LoadDateFiles_AgainstRoot(_, _, _, _, _, _, _)
LoadDateFiles_AgainstRoot(fsys, date_dir, safe_date_dir, dir_date, json_files, acc, loop_exc) ==
    IF json_files = <<>> THEN acc
    ELSE LET json_file == Head(json_files)
             safe_file == _validate_and_resolve_input_path(fsys, json_file,
                                                           Front(safe_date_dir), loop_exc)
         IN  IF safe_file.kind = "raise" THEN Warn(acc, "failed", date_dir)
             ELSE IF safe_file.kind = "None"
             THEN LoadDateFiles_AgainstRoot(fsys, date_dir, safe_date_dir, dir_date, Tail(json_files),
                                Warn(acc, "outside", json_file), loop_exc)
             ELSE IF Lookup(fsys, safe_file.path).kind # "file" THEN Warn(acc, "failed", date_dir)
             ELSE IF ~Lookup(fsys, safe_file.path).content.valid
             THEN Warn(Opened(acc, json_file, safe_file.path), "failed", date_dir)
             ELSE IF Lookup(fsys, safe_file.path).content.type = "number"
             THEN Warn(Opened(acc, json_file, safe_file.path), "failed", date_dir)
             ELSE LoadDateFiles_AgainstRoot(fsys, date_dir, safe_date_dir, dir_date, Tail(json_files),
                      [Opened(acc, json_file, safe_file.path) EXCEPT
                           !.ret = Append(@, [date |-> dir_date,
                                              config |-> _extract_config_name(json_file),
                                              metrics |-> _parse_benchmark_data(
                                                  Members(Lookup(fsys, safe_file.path).content))])],
                      loop_exc)

\* the loop over the files of one date directory; an exception leaves the loop for the
\* except clause of the directory, and the files not yet read are not read
RECURSIVE LoadDateFiles(_, _, _, _, _, _, _)
LoadDateFiles(fsys, date_dir, safe_date_dir, dir_date, json_files, acc, loop_exc) ==
    IF json_files = <<>> THEN acc
    ELSE LET json_file == Head(json_files)
             safe_file == _validate_and_resolve_input_path(fsys, json_file, safe_date_dir, loop_exc)
         IN  IF safe_file.kind = "raise" THEN Warn(acc, "failed", date_dir)
             ELSE IF safe_file.kind = "None"
             THEN LoadDateFiles(fsys, date_dir, safe_date_dir, dir_date, Tail(json_files),
                                Warn(acc, "outside", json_file), loop_exc)
             ELSE IF Lookup(fsys, safe_file.path).kind # "file" THEN Warn(acc, "failed", date_dir)
             ELSE IF ~Lookup(fsys, safe_file.path).content.valid
             THEN Warn(Opened(acc, json_file, safe_file.path), "failed", date_dir)
             ELSE IF Lookup(fsys, safe_file.path).content.type = "number"
             THEN Warn(Opened(acc, json_file, safe_file.path), "failed", date_dir)
             ELSE LoadDateFiles(fsys, date_dir, safe_date_dir, dir_date, Tail(json_files),
                      [Opened(acc, json_file, safe_file.path) EXCEPT
                           !.ret = Append(@, [date |-> dir_date,
                                              config |-> _extract_config_name(json_file),
                                              metrics |-> _parse_benchmark_data(
                                                  Members(Lookup(fsys, safe_file.path).content))])],
                      loop_exc)

\* the walk with its try around the whole loop: the first exception ends the walk
RECURSIVE WalkDateDirs_TryAroundLoop(_, _, _, _, _, _, _)
WalkDateDirs_TryAroundLoop(fsys, benchmark_results_dir, date_dirs, acc, now, priority, loop_exc) ==
    IF date_dirs = <<>> THEN acc
    ELSE LET date_dir == Head(date_dirs)
             safe_date_dir == _validate_and_resolve_input_path(fsys, date_dir,
                                                               benchmark_results_dir, loop_exc)
             dir_date == strptime(Last(date_dir))
         IN  IF ~is_dir(fsys, date_dir)
             THEN WalkDateDirs_TryAroundLoop(fsys, benchmark_results_dir, Tail(date_dirs), acc,
                               now, priority, loop_exc)
             ELSE IF safe_date_dir.kind = "raise"
             THEN WalkDateDirs_TryAroundLoop(fsys, benchmark_results_dir, Tail(date_dirs),
                               Warn(acc, "failed", date_dir), now, priority, loop_exc)
             ELSE IF safe_date_dir.kind = "None"
             THEN WalkDateDirs_TryAroundLoop(fsys, benchmark_results_dir, Tail(date_dirs),
                               Warn(acc, "outside", date_dir), now, priority, loop_exc)
             ELSE IF ~dir_date.ok THEN Warn(acc, "failed", date_dir)
             ELSE IF BeforeCutoff(dir_date.day, now) THEN acc
             ELSE WalkDateDirs_TryAroundLoop(fsys, benchmark_results_dir, Tail(date_dirs),
                      LoadDateFiles(fsys, date_dir, safe_date_dir.path, dir_date.day,
                                    Listing(GlobJson(fsys, date_dir), priority),
                                    [acc EXCEPT !.listed = Append(@, date_dir)], loop_exc),
                      now, priority, loop_exc)

\* the loop over the date directories, newest name first
RECURSIVE WalkDateDirs(_, _, _, _, _, _, _)
WalkDateDirs(fsys, benchmark_results_dir, date_dirs, acc, now, priority, loop_exc) ==
    IF date_dirs = <<>> THEN acc
    ELSE LET date_dir == Head(date_dirs)
             safe_date_dir == _validate_and_resolve_input_path(fsys, date_dir,
                                                               benchmark_results_dir, loop_exc)
             dir_date == strptime(Last(date_dir))
         IN  IF ~is_dir(fsys, date_dir)
             THEN WalkDateDirs(fsys, benchmark_results_dir, Tail(date_dirs), acc,
                               now, priority, loop_exc)
             ELSE IF safe_date_dir.kind = "raise"
             THEN WalkDateDirs(fsys, benchmark_results_dir, Tail(date_dirs),
                               Warn(acc, "failed", date_dir), now, priority, loop_exc)
             ELSE IF safe_date_dir.kind = "None"
             THEN WalkDateDirs(fsys, benchmark_results_dir, Tail(date_dirs),
                               Warn(acc, "outside", date_dir), now, priority, loop_exc)
             ELSE IF ~dir_date.ok
             THEN WalkDateDirs(fsys, benchmark_results_dir, Tail(date_dirs),
                               Warn(acc, "failed", date_dir), now, priority, loop_exc)
             ELSE IF BeforeCutoff(dir_date.day, now) THEN acc
             ELSE WalkDateDirs(fsys, benchmark_results_dir, Tail(date_dirs),
                      LoadDateFiles(fsys, date_dir, safe_date_dir.path, dir_date.day,
                                    Listing(GlobJson(fsys, date_dir), priority),
                                    [acc EXCEPT !.listed = Append(@, date_dir)], loop_exc),
                      now, priority, loop_exc)

\* the list returned, the files opened, the warnings printed, the directories listed
load_historical_results(fsys, benchmark_results_dir, now, priority, loop_exc) ==
    IF ~realpath(fsys, benchmark_results_dir).ok
    THEN [ret |-> <<>>, opened |-> <<>>, warnings |-> <<>>, listed |-> <<>>]
    ELSE WalkDateDirs(fsys, realpath(fsys, benchmark_results_dir).path,
                      SortedDescending(Entries(fsys, realpath(fsys, benchmark_results_dir).path)),
                      [ret |-> <<>>, opened |-> <<>>, warnings |-> <<>>, listed |-> <<>>],
                      now, priority, loop_exc)

----------------------------------------------------------------------------
(* The analysis over parsed documents.                                     *)

Init ==
    /\ regression_threshold \in Thresholds
    /\ current_results = <<>>
    /\ historical_results = <<>>
    /\ regressions = NoRegressions
    /\ pc = "loading"
    /\ fs = NoFiles
    /\ call = NoCall
    /\ safe_output_file = NoPath

\* load_current_results, one result file: results[config_name] = parsed
StoreCurrent(config, data) ==
    /\ pc = "loading"
    /\ config \notin DictKeys(current_results)
    /\ current_results' = DictSet(current_results, config, _parse_benchmark_data(data))
    /\ UNCHANGED <<regression_threshold, historical_results, regressions, pc, fsVars>>

\* load_historical_results, one result file: historical.append({...})
AppendHistorical(config, data) ==
    /\ pc = "loading"
    /\ Len(historical_results) < MaxHist
    /\ historical_results' = Append(historical_results,
                                    [date |-> strptime(Today).day, config |-> config,
                                     metrics |-> _parse_benchmark_data(data)])
    /\ UNCHANGED <<regression_threshold, current_results, regressions, pc, fsVars>>

\* run: regressions = self.detect_regressions()
DetectRegressions ==
    /\ pc = "loading"
    /\ regressions' = detect_regressions(current_results, historical_results, regression_threshold)
    /\ pc' = "classified"
    /\ UNCHANGED <<regression_threshold, current_results, historical_results, fsVars>>

Next ==
    \/ \E in \in CurInputs : StoreCurrent(in.config, in.data)
    \/ \E in \in HistInputs : AppendHistorical(in.config, in.data)
    \/ DetectRegressions

Spec == Init /\ [][Next]_vars

----------------------------------------------------------------------------
(* The normalizer on its own: a document is drawn, then                    *)
(* _parse_benchmark_data is applied to it.                                 *)

\* the operation objects of a document: the fields the script reads, and the same
\* figures as 'ops' and 'q50' (microseconds)
ParseOpDatas ==
    {[throughput |-> 100, p50_ns |-> 5000, samples |-> 10],
     [ops |-> 100, q50 |-> 5, samples |-> 10],
     [samples |-> 10]}

ParseKeys == {"creates", "create", "reads", "read"}

\* the documents: objects with some of the keys, each with an operation object
ParseDocs == UNION {[K -> ParseOpDatas] : K \in SUBSET ParseKeys}

InitParse ==
    /\ regression_threshold = DefaultThreshold
    /\ current_results = <<>>
    /\ historical_results = <<>>
    /\ regressions = NoRegressions
    /\ pc = "loading"
    /\ fs = NoFiles
    /\ call = NoCall
    /\ safe_output_file = NoPath

\* one call of _parse_benchmark_data
ParseBenchmarkData(data) ==
    /\ call' = [fn |-> "_parse_benchmark_data", data |-> data, ret |-> _parse_benchmark_data(data)]
    /\ UNCHANGED <<analysisVars, fs, safe_output_file>>

NextParse == \E data \in ParseDocs : ParseBenchmarkData(data)

SpecParse == InitParse /\ [][NextParse]_vars

----------------------------------------------------------------------------
(* The classifier called a second time on the same analyzer.               *)

\* a second call that goes on from the lists of the first, as if they were kept in the
\* analyzer between calls
DetectRegressionsAgain_Accumulating ==
    /\ pc = "classified"
    /\ call = NoCall
    /\ regressions' = DetectConfigs(regressions, current_results, historical_results,
                                    regression_threshold)
    /\ call' = [fn |-> "detect_regressions", first |-> regressions,
                current_results |-> current_results, historical_results |-> historical_results]
    /\ UNCHANGED <<regression_threshold, current_results, historical_results, pc, fs,
                   safe_output_file>>

\* self.detect_regressions() once more: the lists start empty in every call (lines
\* 263-267) and nothing of the analyzer is assigned
DetectRegressionsAgain ==
    /\ pc = "classified"
    /\ call = NoCall
    /\ regressions' = detect_regressions(current_results, historical_results, regression_threshold)
    /\ call' = [fn |-> "detect_regressions", first |-> regressions,
                current_results |-> current_results, historical_results |-> historical_results]
    /\ UNCHANGED <<regression_threshold, current_results, historical_results, pc, fs,
                   safe_output_file>>

NextAgain == Next \/ DetectRegressionsAgain

SpecAgain == Init /\ [][NextAgain]_vars

----------------------------------------------------------------------------
(* The baseline calculator on its own: a history and a current run are     *)
(* drawn, then calculate_baseline and detect_regressions are applied.      *)

MaxStats == 4

StatsValues == {98, 100, 101, 102}

StatsRecord(config, throughput) ==
    [date |-> strptime(Today).day, config |-> config,
     metrics |-> _parse_benchmark_data([creates |-> OpData(throughput, 10)])]

\* historical records of memory, and one of rocksdb
StatsInputs ==
    {StatsRecord(<<"memory">>, v) : v \in StatsValues} \cup {StatsRecord(<<"rocksdb">>, 50)}

StatsHistories == UNION {[1..k -> StatsInputs] : k \in 0..MaxStats}

StatsCurrents ==
    {<<[config |-> <<"memory">>,
        metrics |-> _parse_benchmark_data([creates |-> OpData(t, 10)])]>> : t \in {80, 100}}

InitStats ==
    /\ regression_threshold = DefaultThreshold
    /\ current_results \in StatsCurrents
    /\ historical_results \in StatsHistories
    /\ regressions = NoRegressions
    /\ pc = "loading"
    /\ fs = NoFiles
    /\ call = NoCall
    /\ safe_output_file = NoPath

\* one call of calculate_baseline
CalculateBaseline(config, operation, metric) ==
    /\ call' = [fn |-> "calculate_baseline", config |-> config, operation |-> operation,
                metric |-> metric,
                ret |-> calculate_baseline(historical_results, config, operation, metric)]
    /\ UNCHANGED <<analysisVars, fs, safe_output_file>>

NextStats ==
    \/ \E config \in Configs : CalculateBaseline(config, "create", "throughput")
    \/ DetectRegressions

SpecStats == InitStats /\ [][NextStats]_vars

----------------------------------------------------------------------------
(* The classifier over histories of one median and several spreads: a      *)
(* history of memory and a current run are drawn, then detect_regressions  *)
(* is applied.                                                             *)

MaxAlt == 3

\* histories of memory whose create throughputs are drawn from 75, 100 and 125
AlternativeHistories ==
    UNION {[1..k -> {StatsRecord(<<"memory">>, v) : v \in {75, 100, 125}}] : k \in 1..MaxAlt}

AlternativeCurrents ==
    {<<[config |-> <<"memory">>,
        metrics |-> _parse_benchmark_data([creates |-> OpData(t, 10)])]>> :
        t \in {51, 85, 100, 125}}

InitSignificance ==
    /\ regression_threshold \in Thresholds
    /\ current_results \in AlternativeCurrents
    /\ historical_results \in AlternativeHistories
    /\ regressions = NoRegressions
    /\ pc = "loading"
    /\ fs = NoFiles
    /\ call = NoCall
    /\ safe_output_file = NoPath

NextSignificance == DetectRegressions

SpecSignificance == InitSignificance /\ [][NextSignificance]_vars

----------------------------------------------------------------------------
(* The classifier over throughput figures of either sign: json.load takes   *)
(* any number, and no code checks that a throughput is positive.           *)

MaxSigned == 2

\* histories of memory whose create throughputs are negative, zero or positive
SignedHistories ==
    UNION {[1..k -> {StatsRecord(<<"memory">>, v) : v \in {0 - 100, 0, 50, 100}}] :
              k \in 1..MaxSigned}

SignedCurrents ==
    {<<[config |-> <<"memory">>,
        metrics |-> _parse_benchmark_data([creates |-> OpData(t, 10)])]>> :
        t \in {0 - 200, 0 - 50, 50, 85, 100, 200}}

InitSigned ==
    /\ regression_threshold \in Thresholds
    /\ current_results \in SignedCurrents
    /\ historical_results \in SignedHistories
    /\ regressions = NoRegressions
    /\ pc = "loading"
    /\ fs = NoFiles
    /\ call = NoCall
    /\ safe_output_file = NoPath

NextSigned == DetectRegressions

SpecSigned == InitSigned /\ [][NextSigned]_vars

----------------------------------------------------------------------------
(* The path guard on its own: a file system is drawn, then                 *)
(* _validate_and_resolve_input_path is called on candidates and bases.     *)

ResName == <<"res">>
OutName == <<"out">>
LnkName == <<"lnk">>
FileA == <<"result-", "a", ".json">>
FileB == <<"result-", "b", ".json">>
SecretName == <<"secret", ".json">>
GoneName == <<"gone", ".json">>

ResDir == <<ResName>>
OutDir == <<OutName>>

\* /res and /out are directories; /res/result-a.json, /res/result-b.json,
\* /out/secret.json and /lnk are regular files, symbolic links or missing
GuardFileSystems ==
    {(ResDir :> DirNode) @@ (OutDir :> DirNode)
        @@ (<<ResName, FileA>> :> a) @@ (<<ResName, FileB>> :> b)
        @@ (<<OutName, SecretName>> :> x) @@ (<<LnkName>> :> l) :
        a \in {FileNode(Json(DocA)), NoNode,
               LinkNode(TRUE, <<OutName, SecretName>>),
               LinkNode(FALSE, <<ParentName, OutName, SecretName>>),
               LinkNode(TRUE, <<ResName, FileB>>),
               LinkNode(TRUE, <<ResName, FileA>>),
               LinkNode(TRUE, <<ResName, GoneName>>)},
        b \in {FileNode(Json(DocB)), NoNode},
        x \in {FileNode(Json(DocB)), NoNode, LinkNode(TRUE, <<ResName, FileB>>)},
        l \in {NoNode, LinkNode(TRUE, ResDir), LinkNode(TRUE, OutDir)}}

GuardCandidates ==
    {<<ResName, FileA>>, <<ResName, FileB>>, <<OutName, SecretName>>,
     <<ResName, ParentName, OutName, SecretName>>,
     <<OutName, ParentName, ResName, FileB>>,
     <<LnkName, FileA>>, <<ResName, GoneName>>, ResDir}

GuardBases == {ResDir, OutDir, <<LnkName>>, <<ResName, GoneName>>}

InitPath ==
    /\ regression_threshold = DefaultThreshold
    /\ current_results = <<>>
    /\ historical_results = <<>>
    /\ regressions = NoRegressions
    /\ pc = "loading"
    /\ fs \in GuardFileSystems
    /\ call = NoCall
    /\ safe_output_file = NoPath

\* one call of _validate_and_resolve_input_path; it reads the file system only
ValidateInputPath(file_path, base_dir, loop_exc) ==
    /\ call' = [fn |-> "_validate_and_resolve_input_path",
                file_path |-> file_path, base_dir |-> base_dir,
                ret |-> _validate_and_resolve_input_path(fs, file_path, base_dir, loop_exc)]
    /\ UNCHANGED <<analysisVars, fs, safe_output_file>>

NextPath ==
    \E file_path \in GuardCandidates, base_dir \in GuardBases, loop_exc \in LoopExceptions :
        ValidateInputPath(file_path, base_dir, loop_exc)

SpecPath == InitPath /\ [][NextPath]_vars

----------------------------------------------------------------------------
(* The output path guard on its own: a file system is drawn with the       *)
(* working directory /work, then _validate_output_path is called.          *)

WorkName == <<"work">>
Cwd == <<WorkName>>
TextName == <<"file.txt">>
SubName == <<"sub">>
DeepName == <<"deep">>
ReportName == <<"report.md">>
NewName == <<"new">>

\* /work/file.txt is a regular file or missing, /work/sub a directory or missing,
\* /work/lnk leads out of the working directory, to a missing place in it or out of
\* it, or to itself
OutputFileSystems ==
    {(Cwd :> DirNode) @@ (OutDir :> DirNode)
        @@ (<<WorkName, TextName>> :> t) @@ (<<WorkName, SubName>> :> d)
        @@ (<<WorkName, LnkName>> :> l) :
        t \in {NoNode, FileNode(Malformed)}, d \in {NoNode, DirNode},
        l \in {NoNode, LinkNode(TRUE, OutDir), LinkNode(TRUE, <<OutName, NewName>>),
               LinkNode(FALSE, <<NewName>>), LinkNode(FALSE, <<LnkName>>)}}

Relative(parts) == [abs |-> FALSE, parts |-> parts]
Absolute(parts) == [abs |-> TRUE, parts |-> parts]

OutputCandidates ==
    {Relative(<<ReportName>>), Relative(<<SubName, DeepName, ReportName>>),
     Relative(<<TextName, ReportName>>), Relative(<<TextName, SubName, ReportName>>),
     Relative(<<TextName, ParentName, ReportName>>), Relative(<<TextName>>),
     Relative(<<ParentName, OutName, NewName, ReportName>>),
     Relative(<<SubName, ParentName, ParentName, OutName, ReportName>>),
     Relative(<<LnkName, DeepName, ReportName>>), Relative(<<LnkName>>), Relative(<<>>),
     Absolute(<<WorkName, NewName, ReportName>>), Absolute(<<OutName, ReportName>>)}

InitOut ==
    /\ regression_threshold = DefaultThreshold
    /\ current_results = <<>>
    /\ historical_results = <<>>
    /\ regressions = NoRegressions
    /\ pc = "run"
    /\ fs \in OutputFileSystems
    /\ call = NoCall
    /\ safe_output_file = NoPath

\* one call of _validate_output_path; it may create directories
ValidateOutputPath(file_path, loop_exc) ==
    /\ pc = "run"
    /\ call' = [fn |-> "_validate_output_path", file_path |-> file_path, before |-> fs,
                ret |-> _validate_output_path(fs, Cwd, file_path, loop_exc).ret]
    /\ fs' = _validate_output_path(fs, Cwd, file_path, loop_exc).fs
    /\ pc' = "validated"
    /\ UNCHANGED <<regression_threshold, current_results, historical_results, regressions,
                   safe_output_file>>

NextOut ==
    \E file_path \in OutputCandidates, loop_exc \in LoopExceptions :
        ValidateOutputPath(file_path, loop_exc)

SpecOut == InitOut /\ [][NextOut]_vars

----------------------------------------------------------------------------
(* The loaders: a file system is drawn, then run loads the current results *)
(* from /res and the historical results from /results.                     *)

\* what every file system of the loaders has: /res, /results, /out and /out/secret.json
BaseFiles ==
    (ResDir :> DirNode) @@ (HistoricalDir :> DirNode) @@ (OutDir :> DirNode)
        @@ (<<OutName, SecretName>> :> FileNode(Json(DocB)))

\* result-a.json of the directory `dir`: a document, malformed, a link out of the
\* directory, a link to itself, or missing
FileAChoices(dir) ==
    {FileNode(Json(DocA)), FileNode(Malformed), NoNode,
     LinkNode(TRUE, <<OutName, SecretName>>),
     LinkNode(TRUE, Append(dir, FileA))}

FileBChoices == {FileNode(Json(DocB)), NoNode, LinkNode(FALSE, <<ParentName, ParentName, OutName, SecretName>>)}

\* the current results directory varies
CurrentFileSystems ==
    {BaseFiles @@ (<<ResName, FileA>> :> a) @@ (<<ResName, FileB>> :> b) :
        a \in FileAChoices(ResDir) \cup {FileNode(JsonArray), FileNode(JsonNumber)},
        b \in FileBChoices}

\* 2024-03-09: missing, a directory with a document, a directory whose document is a
\* link into 2024-03-10, a link to /out, or a link to 2024-03-10
YesterdayChoices ==
    {(<<ResultsName, Yesterday>> :> NoNode),
     (<<ResultsName, Yesterday>> :> DirNode)
         @@ (<<ResultsName, Yesterday, FileA>> :> FileNode(Json(DocA))),
     (<<ResultsName, Yesterday>> :> DirNode)
         @@ (<<ResultsName, Yesterday, FileA>> :> LinkNode(FALSE, <<ParentName, Today, FileB>>)),
     (<<ResultsName, Yesterday>> :> LinkNode(TRUE, OutDir)),
     (<<ResultsName, Yesterday>> :> LinkNode(FALSE, <<Today>>))}

\* a directory that holds one document, or nothing
OptionalDir(name) ==
    {(<<ResultsName, name>> :> NoNode),
     (<<ResultsName, name>> :> DirNode) @@ (<<ResultsName, name, FileA>> :> FileNode(Json(DocA)))}

\* the historical tree varies, next to one current document
HistoricalFileSystems ==
    {BaseFiles @@ (<<ResName, FileA>> :> FileNode(Json(DocA)))
        @@ (<<ResultsName, Today>> :> DirNode)
        @@ (<<ResultsName, Today, FileA>> :> a) @@ (<<ResultsName, Today, FileB>> :> b)
        @@ y @@ e @@ o @@ u @@ l :
        a \in FileAChoices(<<ResultsName, Today>>), b \in FileBChoices,
        y \in YesterdayChoices, e \in OptionalDir(Boundary), o \in OptionalDir(LongAgo),
        u \in OptionalDir(Unpadded), l \in OptionalDir(Latest)}

\* the orders in which a directory listing can come
Priorities == {<<FileA, FileB, SecretName>>, <<FileB, FileA, SecretName>>}

\* the run starts on 2024-03-10, at midnight sharp or later in the day
Nows == {[day |-> strptime(Today).day, midnight |-> m] : m \in BOOLEAN}

InitLoad ==
    /\ regression_threshold = DefaultThreshold
    /\ current_results = <<>>
    /\ historical_results = <<>>
    /\ regressions = NoRegressions
    /\ pc = "run"
    /\ fs \in CurrentFileSystems \cup HistoricalFileSystems
    /\ call = NoCall
    /\ safe_output_file = NoPath

\* the output paths of the run, taken from the working directory /: a new file, a file
\* in a directory still to make, and the directory /out
RunOutputs == {Relative(<<ReportName>>), Relative(<<NewName, ReportName>>), Relative(<<OutName>>)}

\* run: safe_output_file = self._validate_output_path(output_file); no --json-output
ValidateOutputs(output_file, loop_exc) ==
    /\ pc = "run"
    /\ call' = [fn |-> "_validate_output_path", file_path |-> output_file, before |-> fs,
                ret |-> _validate_output_path(fs, RootPath, output_file, loop_exc).ret]
    /\ fs' = _validate_output_path(fs, RootPath, output_file, loop_exc).fs
    /\ safe_output_file' = call'.ret
    /\ pc' = IF call'.ret.kind = "path" THEN "validated" ELSE "raised"
    /\ UNCHANGED <<regression_threshold, current_results, historical_results, regressions>>

\* the text run writes when there are no current results
NoDataReport == [valid |-> FALSE, text |-> "No benchmark results found"]

\* with open(path, 'w') as f: f.write(text): the file system after it, or the
\* IsADirectoryError of open
WriteFile(fsys, path, content) ==
    IF Lookup(fsys, path).kind = "dir" THEN [ok |-> FALSE, exc |-> "IsADirectoryError"]
    ELSE [ok |-> TRUE,
          fs |-> [q \in DOMAIN fsys \cup {path} |-> IF q = path THEN FileNode(content) ELSE fsys[q]]]

\* run: self.current_results = self.load_current_results(), and when nothing was
\* loaded the 'no data' report and the return
LoadCurrentResults(priority, loop_exc) ==
    /\ pc = "validated"
    /\ call' = [fn |-> "load_current_results"] @@ load_current_results(fs, ResDir, priority, loop_exc)
    /\ current_results' = call'.ret
    /\ IF current_results' # <<>> THEN pc' = "current_loaded" /\ fs' = fs
       ELSE IF WriteFile(fs, safe_output_file.path, NoDataReport).ok
       THEN pc' = "returned" /\ fs' = WriteFile(fs, safe_output_file.path, NoDataReport).fs
       ELSE pc' = "raised" /\ fs' = fs
    /\ UNCHANGED <<regression_threshold, historical_results, regressions, safe_output_file>>

\* run: self.historical_results = self.load_historical_results(historical_dir)
LoadHistoricalResults(now, priority, loop_exc) ==
    /\ pc = "current_loaded"
    /\ realpath(fs, HistoricalDir).ok
    /\ call' = [fn |-> "load_historical_results", now |-> now]
                   @@ load_historical_results(fs, HistoricalDir, now, priority, loop_exc)
    /\ historical_results' = call'.ret
    /\ pc' = "historical_loaded"
    /\ UNCHANGED <<regression_threshold, current_results, regressions, fs, safe_output_file>>

NextLoad ==
    \/ \E output_file \in RunOutputs, loop_exc \in LoopExceptions :
           ValidateOutputs(output_file, loop_exc)
    \/ \E priority \in Priorities, loop_exc \in LoopExceptions :
           LoadCurrentResults(priority, loop_exc)
    \/ \E now \in Nows, priority \in Priorities, loop_exc \in LoopExceptions :
           LoadHistoricalResults(now, priority, loop_exc)

SpecLoad == InitLoad /\ [][NextLoad]_vars

----------------------------------------------------------------------------
(* The names of the configurations: /res holds two result files whose      *)
(* names are drawn, and run loads the current results.                     *)

MaxName == 2

\* the parts a configuration is named from
NameParts == {"a", "b", "result-"}

\* the file names result-<config>.json, <config> of one to MaxName parts
ConfigFileNames ==
    {<<"result-">> \o config \o <<".json">> :
        config \in UNION {[1..n -> NameParts] : n \in 1..MaxName}}

NamedFileSystems ==
    {BaseFiles @@ (<<ResName, pair[1]>> :> FileNode(Json(DocA)))
               @@ (<<ResName, pair[2]>> :> FileNode(Json(DocB))) :
        pair \in {q \in ConfigFileNames \X ConfigFileNames : q[1] # q[2]}}

InitName ==
    /\ regression_threshold = DefaultThreshold
    /\ current_results = <<>>
    /\ historical_results = <<>>
    /\ regressions = NoRegressions
    /\ pc = "run"
    /\ fs \in NamedFileSystems
    /\ call = NoCall
    /\ safe_output_file = NoPath

\* the orders in which the listing of /res can come
NamePriorities(fsys) ==
    LET names == {Last(q) : q \in GlobJson(fsys, ResDir)}
    IN  {q \in names \X names : q[1] # q[2]}

NextName ==
    \/ \E output_file \in RunOutputs, loop_exc \in LoopExceptions :
           ValidateOutputs(output_file, loop_exc)
    \/ \E priority \in NamePriorities(fs), loop_exc \in LoopExceptions :
           LoadCurrentResults(priority, loop_exc)

SpecName == InitName /\ [][NextName]_vars

----------------------------------------------------------------------------
(* run as a whole, from the working directory /work: the two output paths  *)
(* are validated, the current results are loaded from /res, the historical *)
(* results from /work/results, and the two reports are written.  call is   *)
(* the frame of run: its arguments, the file system it started on, the     *)
(* validated JSON path, the files it opened and the steps it has taken.    *)

JsonName == <<"analysis", ".json">>
RunHistoricalDir == <<WorkName, ResultsName>>

\* /res holds result-a.json (a document, malformed or missing) and maybe result-b.json;
\* /work/results is missing or holds the days 2024-03-10 and maybe 2024-01-05;
\* /work/sub is a directory or missing; /out lies outside the working directory
RunFileSystems ==
    {(Cwd :> DirNode) @@ (OutDir :> DirNode) @@ (ResDir :> DirNode)
        @@ (<<ResName, FileA>> :> a) @@ (<<ResName, FileB>> :> b)
        @@ h @@ (<<WorkName, SubName>> :> d) :
        a \in {FileNode(Json(DocA)), FileNode(Malformed), NoNode},
        b \in {FileNode(Json(DocB)), NoNode},
        d \in {NoNode, DirNode},
        h \in {(RunHistoricalDir :> NoNode),
               (RunHistoricalDir :> DirNode)
                   @@ (<<WorkName, ResultsName, Today>> :> DirNode)
                   @@ (<<WorkName, ResultsName, Today, FileA>> :> FileNode(Json(DocB))),
               (RunHistoricalDir :> DirNode)
                   @@ (<<WorkName, ResultsName, Today>> :> DirNode)
                   @@ (<<WorkName, ResultsName, Today, FileA>> :> FileNode(Json(DocB)))
                   @@ (<<WorkName, ResultsName, LongAgo>> :> DirNode)
                   @@ (<<WorkName, ResultsName, LongAgo, FileA>> :> FileNode(Json(DocA)))}}

\* --output: a new file, a file in a directory to make, the name of /work/sub, and a
\* path out of the working directory
MarkdownOutputs ==
    {Relative(<<ReportName>>), Relative(<<NewName, ReportName>>), Relative(<<SubName>>),
     Relative(<<ParentName, OutName, ReportName>>)}

\* --json-output: not given, a new file, a file in a directory to make, the name of
\* /work/sub, and paths out of the working directory
JsonOutputs ==
    {NoPath, Relative(<<JsonName>>), Relative(<<DeepName, JsonName>>), Relative(<<SubName>>),
     Absolute(<<OutName, JsonName>>), Absolute(<<OutName, NewName, JsonName>>)}

InitRun ==
    /\ regression_threshold = DefaultThreshold
    /\ current_results = <<>>
    /\ historical_results = <<>>
    /\ regressions = NoRegressions
    /\ pc = "run"
    /\ fs \in RunFileSystems
    /\ call = NoCall
    /\ safe_output_file = NoPath

\* the frame of run when it starts
RunFrame(output_file, json_output_file) ==
    [fn |-> "run", output_file |-> output_file, json_output_file |-> json_output_file,
     before |-> fs, safe_json_output_file |-> NoPath, opened |-> <<>>, events |-> <<>>]

Event(frame, name) == [frame EXCEPT !.events = Append(@, name)]

\* run: safe_output_file = self._validate_output_path(output_file), then
\* safe_json_output_file = self._validate_output_path(json_output_file) if
\* json_output_file else None
RunValidateOutputs(output_file, json_output_file, loop_exc) ==
    LET first == _validate_output_path(fs, Cwd, output_file, loop_exc)
        second == _validate_output_path(first.fs, Cwd, json_output_file, loop_exc)
        frame == Event(RunFrame(output_file, json_output_file), "validate_output")
    IN  /\ pc = "run"
        /\ IF first.ret.kind # "path"
           THEN /\ pc' = "raised"
                /\ fs' = first.fs
                /\ safe_output_file' = NoPath
                /\ call' = frame
           ELSE IF json_output_file = NoPath
           THEN /\ pc' = "validated"
                /\ fs' = first.fs
                /\ safe_output_file' = first.ret
                /\ call' = frame
           ELSE /\ pc' = IF second.ret.kind = "path" THEN "validated" ELSE "raised"
                /\ fs' = second.fs
                /\ safe_output_file' = first.ret
                /\ call' = [Event(frame, "validate_json_output") EXCEPT
                                !.safe_json_output_file =
                                    IF second.ret.kind = "path" THEN second.ret ELSE NoPath]
        /\ UNCHANGED <<regression_threshold, current_results, historical_results, regressions>>

\* the step without the return after the 'no data' report: run goes on
RunLoadCurrentResults_NoReturn(priority, loop_exc) ==
    LET loaded == load_current_results(fs, ResDir, priority, loop_exc)
        frame == [Event(call, "load_current_results") EXCEPT !.opened = loaded.opened]
        written == WriteFile(fs, safe_output_file.path, NoDataReport)
    IN  /\ pc = "validated"
        /\ call.fn = "run"
        /\ current_results' = loaded.ret
        /\ IF loaded.ret # <<>>
           THEN pc' = "current_loaded" /\ fs' = fs /\ call' = frame
           ELSE IF written.ok
           THEN pc' = "current_loaded" /\ fs' = written.fs
                /\ call' = Event(frame, "write_no_data")
           ELSE pc' = "raised" /\ fs' = fs /\ call' = frame
        /\ UNCHANGED <<regression_threshold, historical_results, regressions, safe_output_file>>

\* run: self.current_results = self.load_current_results(), and when nothing was
\* loaded the 'no data' report and the return
RunLoadCurrentResults(priority, loop_exc) ==
    LET loaded == load_current_results(fs, ResDir, priority, loop_exc)
        frame == [Event(call, "load_current_results") EXCEPT !.opened = loaded.opened]
        written == WriteFile(fs, safe_output_file.path, NoDataReport)
    IN  /\ pc = "validated"
        /\ call.fn = "run"
        /\ current_results' = loaded.ret
        /\ IF loaded.ret # <<>>
           THEN pc' = "current_loaded" /\ fs' = fs /\ call' = frame
           ELSE IF written.ok
           THEN pc' = "returned" /\ fs' = written.fs /\ call' = Event(frame, "write_no_data")
           ELSE pc' = "raised" /\ fs' = fs /\ call' = frame
        /\ UNCHANGED <<regression_threshold, historical_results, regressions, safe_output_file>>

\* run: if historical_dir.exists(): self.historical_results =
\* self.load_historical_results(historical_dir)
RunLoadHistoricalResults(now, priority, loop_exc) ==
    LET loaded == load_historical_results(fs, RunHistoricalDir, now, priority, loop_exc)
    IN  /\ pc = "current_loaded"
        /\ call.fn = "run"
        /\ IF realpath(fs, RunHistoricalDir).ok
           THEN /\ historical_results' = loaded.ret
                /\ call' = [Event(call, "load_historical_results") EXCEPT
                                !.opened = @ \o loaded.opened]
           ELSE UNCHANGED <<historical_results, call>>
        /\ pc' = "historical_loaded"
        /\ UNCHANGED <<regression_threshold, current_results, regressions, fs, safe_output_file>>

\* run: regressions = self.detect_regressions()
RunDetectRegressions ==
    /\ pc = "historical_loaded"
    /\ regressions' = detect_regressions(current_results, historical_results, regression_threshold)
    /\ call' = Event(call, "detect_regressions")
    /\ pc' = "classified"
    /\ UNCHANGED <<regression_threshold, current_results, historical_results, fs, safe_output_file>>

\* generate_report(regressions): the text is made of the classification and of the
\* current and the historical results
Report == [valid |-> FALSE, text |-> "CRUD Benchmark Results", regressions |-> regressions,
           current_results |-> current_results,
           historical |-> Len(historical_results)]

\* run: report = self.generate_report(regressions); with open(safe_output_file, 'w')
RunWriteReport ==
    LET written == WriteFile(fs, safe_output_file.path, Report)
    IN  /\ pc = "classified"
        /\ call.fn = "run"
        /\ IF written.ok
           THEN pc' = "report_written" /\ fs' = written.fs /\ call' = Event(call, "write_report")
           ELSE pc' = "raised" /\ fs' = fs /\ call' = call
        /\ UNCHANGED <<regression_threshold, current_results, historical_results, regressions,
                       safe_output_file>>

\* json.dump(output_data, f, indent=2): timestamp, current_results, regressions
JsonOutput(now) ==
    Json([timestamp |-> now, current_results |-> current_results, regressions |-> regressions])

\* run: if safe_json_output_file: with open(safe_json_output_file, 'w')
RunWriteJson(now) ==
    LET written == WriteFile(fs, call.safe_json_output_file.path, JsonOutput(now))
    IN  /\ pc = "report_written"
        /\ IF call.safe_json_output_file = NoPath
           THEN pc' = "returned" /\ fs' = fs /\ call' = call
           ELSE IF written.ok
           THEN pc' = "returned" /\ fs' = written.fs /\ call' = Event(call, "write_json")
           ELSE pc' = "raised" /\ fs' = fs /\ call' = call
        /\ UNCHANGED <<regression_threshold, current_results, historical_results, regressions,
                       safe_output_file>>

NextRun ==
    \/ \E output_file \in MarkdownOutputs, json_output_file \in JsonOutputs,
          loop_exc \in LoopExceptions :
           RunValidateOutputs(output_file, json_output_file, loop_exc)
    \/ \E priority \in Priorities, loop_exc \in LoopExceptions :
           RunLoadCurrentResults(priority, loop_exc)
    \/ \E now \in Nows, priority \in Priorities, loop_exc \in LoopExceptions :
           RunLoadHistoricalResults(now, priority, loop_exc)
    \/ RunDetectRegressions
    \/ RunWriteReport
    \/ \E now \in Nows : RunWriteJson(now)

SpecRun == InitRun /\ [][NextRun]_vars

----------------------------------------------------------------------------
(* Properties of the classifier.                                           *)

OperationSet == {Operations[i] : i \in 1..Len(Operations)}
Lists == {"detected", "improvements", "stable"}

EntriesIn(list) == {regressions[list][i] : i \in 1..Len(regressions[list])}

\* the places, <<list, index>>, of the entries made for one (configuration, operation)
EntryPlaces(config, operation) ==
    {p \in UNION {{<<l, i>> : i \in 1..Len(regressions[l])} : l \in Lists} :
        /\ regressions[p[1]][p[2]].config = config
        /\ regressions[p[1]][p[2]].operation = operation}

EntriesOf(list, config, operation) ==
    {e \in EntriesIn(list) : e.config = config /\ e.operation = operation}

\* the current records: the (configuration, operation) pairs the current documents carry
CurrentRecords ==
    {r \in DictKeys(current_results) \X OperationSet :
        DOMAIN current_results[DictGet(current_results, r[1])].metrics[r[2]] # {}}

CurrentMetric(r) == current_results[DictGet(current_results, r[1])].metrics[r[2]]

BaselineOf(config, operation) ==
    calculate_baseline(historical_results, config, operation, "throughput")

\* the historical records that carry a throughput for (config, operation)
HistoricalMatches(config, operation) ==
    {i \in 1..Len(historical_results) :
        /\ historical_results[i].config = config
        /\ "throughput" \in DOMAIN historical_results[i].metrics[operation]}

IsNoBaselineEntry(e) == "status" \in DOMAIN e /\ e.status = "no_baseline"

\* C1: a current record with samples > 0, throughput # 0 and a baseline of non-zero
\* median n/d has change_pct = 100 * (current * d - n) / n; it is in 'detected' iff
\* change_pct < -threshold * 100, in 'improvements' iff change_pct > threshold * 100,
\* in 'stable' otherwise, so a change of exactly -threshold*100 or +threshold*100 is stable.
C1_ThresholdClassification ==
    pc = "classified" =>
        \A r \in CurrentRecords :
            LET m == CurrentMetric(r)
                b == BaselineOf(r[1], r[2])
            IN  (m.samples > 0 /\ m.throughput # 0 /\ b # NoBaseline /\ b[1][1] # 0) =>
                LET sgn == IF b[1][1] > 0 THEN 1 ELSE 0 - 1
                    num == sgn * 100 * (m.throughput * b[1][2] - b[1][1])
                    den == sgn * b[1][1]
                    t == regression_threshold
                    below == num * t[2] < 0 - (100 * t[1] * den)
                    above == num * t[2] > 100 * t[1] * den
                IN  /\ (EntriesOf("detected", r[1], r[2]) # {}) <=> below
                    /\ (EntriesOf("improvements", r[1], r[2]) # {}) <=> above
                    /\ (EntriesOf("stable", r[1], r[2]) # {}) <=> (~below /\ ~above)
                    /\ \A l \in Lists : \A e \in EntriesOf(l, r[1], r[2]) :
                           /\ "change_pct" \in DOMAIN e
                           /\ e.change_pct[1] * den = num * e.change_pct[2]

\* a regression, and beside it a record whose change is exactly -threshold * 100 and stable
C1_Witness ==
    /\ pc = "classified"
    /\ regression_threshold = DefaultThreshold
    /\ EntriesIn("detected") # {}
    /\ \E e \in EntriesIn("stable") :
           /\ "change_pct" \in DOMAIN e
           /\ e.change_pct[1] * 100 = (0 - 15) * 100 * e.change_pct[2]

\* C2: the significant flag of a regression is, when the baseline stddev is 0,
\* (current # median), and otherwise (|current - median| / stddev > 1.96), strictly:
\* with median n/d, D = current * d - n and variance v1/v2 that is
\* 625 * D^2 * v2 > 2401 * v1 * d^2.
C2_SignificanceFlag ==
    pc = "classified" =>
        \A e \in EntriesIn("detected") :
            LET b == BaselineOf(e.config, e.operation)
                d == b[1][2]
                D == e.current_throughput * d - b[1][1]
                v == b[2].sq
            IN  /\ "significant" \in DOMAIN e
                /\ e.significant =
                       IF v[1] = 0 THEN D # 0
                       ELSE 625 * D * D * v[2] > 2401 * v[1] * d * d

\* a regression whose z-score is exactly 1.96, flagged not significant
C2_Witness ==
    /\ pc = "classified"
    /\ \E e \in EntriesIn("detected") :
           LET b == BaselineOf(e.config, e.operation)
               d == b[1][2]
               D == e.current_throughput * d - b[1][1]
               v == b[2].sq
           IN  /\ v[1] # 0
               /\ 625 * D * D * v[2] = 2401 * v[1] * d * d
               /\ e.significant = FALSE

\* C3: an entry has status no_baseline iff no historical record carries a value for its
\* (configuration, operation); calculate_baseline is absent exactly then (never a
\* zero-valued baseline); a classified record without history gets such an entry, and
\* a no_baseline entry has neither change_pct nor significant.
C3_NoBaselineIffAbsent ==
    pc = "classified" =>
        /\ \A c \in Configs, op \in OperationSet :
               (BaselineOf(c, op) = NoBaseline) <=> (HistoricalMatches(c, op) = {})
        /\ \A l \in Lists : \A e \in EntriesIn(l) :
               /\ IsNoBaselineEntry(e) <=> (HistoricalMatches(e.config, e.operation) = {})
               /\ IsNoBaselineEntry(e) =>
                      /\ l = "stable"
                      /\ "change_pct" \notin DOMAIN e
                      /\ "significant" \notin DOMAIN e
        /\ \A r \in CurrentRecords :
               (/\ CurrentMetric(r).samples > 0
                /\ CurrentMetric(r).throughput # 0
                /\ HistoricalMatches(r[1], r[2]) = {}) =>
                   \E e \in EntriesOf("stable", r[1], r[2]) : IsNoBaselineEntry(e)

\* a no_baseline entry beside an entry that has a baseline, with history loaded
C3_Witness ==
    /\ pc = "classified"
    /\ Len(historical_results) > 0
    /\ \E e \in EntriesIn("stable") : IsNoBaselineEntry(e)
    /\ \E l \in Lists : \E e \in EntriesIn(l) : ~IsNoBaselineEntry(e)

\* C4: a classified record (samples > 0, throughput # 0) whose baseline has median 0
\* has an entry of status no_baseline.
C4_ZeroMedianIsNoBaseline ==
    pc = "classified" =>
        \A r \in CurrentRecords :
            LET b == BaselineOf(r[1], r[2])
            IN  (/\ CurrentMetric(r).samples > 0
                 /\ CurrentMetric(r).throughput # 0
                 /\ b # NoBaseline
                 /\ b[1][1] = 0) =>
                    \E l \in Lists : \E e \in EntriesOf(l, r[1], r[2]) : IsNoBaselineEntry(e)

\* C5: a current record has exactly one entry across the three lists when its sample
\* count is > 0, and none when its sample count is 0.
C5_OneEntryPerSampledRecord ==
    pc = "classified" =>
        \A r \in CurrentRecords :
            Cardinality(EntryPlaces(r[1], r[2])) =
                IF CurrentMetric(r).samples > 0 THEN 1 ELSE 0

SameBaseline(a, b) ==
    /\ (a = NoBaseline) <=> (b = NoBaseline)
    /\ (a # NoBaseline /\ b # NoBaseline) =>
           /\ REq(a[1], b[1])
           /\ REq(a[2].sq, b[2].sq)

\* C6: appending to the history a run whose sample count for an operation is 0 leaves
\* the baseline of that (configuration, operation) as it was: same existence, median, stddev.
C6_ZeroSampleRunsIgnored ==
    [][\A op \in OperationSet :
           (/\ Len(historical_results') = Len(historical_results) + 1
            /\ DOMAIN historical_results'[Len(historical_results')].metrics[op] # {}
            /\ historical_results'[Len(historical_results')].metrics[op].samples = 0) =>
               LET c == historical_results'[Len(historical_results')].config
               IN  SameBaseline(
                       calculate_baseline(historical_results', c, op, "throughput"),
                       calculate_baseline(historical_results, c, op, "throughput"))]_vars

----------------------------------------------------------------------------
(* Properties of the path guard.                                           *)

IsGuardCall == call.fn = "_validate_and_resolve_input_path"

\* `inner` is `outer` or lies below it
Within(inner, outer) == \E k \in 0..Len(inner) : SubSeq(inner, 1, k) = outer

\* no component of the path is "..", and none is a symbolic link or missing
IsCanonical(fsys, path) ==
    \A i \in 1..Len(path) :
        /\ path[i] # ParentName
        /\ Lookup(fsys, SubSeq(path, 1, i)).kind \in {"dir", "file"}

\* the candidate itself is a symbolic link (its last component, once its directory is resolved)
CandidateIsLink(fsys, path) ==
    /\ path # RootPath
    /\ Last(path) # ParentName
    /\ realpath(fsys, Front(path)).ok
    /\ Lookup(fsys, Append(realpath(fsys, Front(path)).path, Last(path))).kind = "link"

\* where that symbolic link itself lies
LinkLocation(fsys, path) == Append(realpath(fsys, Front(path)).path, Last(path))

\* C7: a path is returned only when candidate and base both resolve and the resolved
\* candidate is the resolved base or below it; the value returned is the resolved
\* candidate: free of symbolic links and "..", whatever the strings given.
C7_ReturnsResolvedPathWithinBase ==
    IsGuardCall =>
        LET c == realpath(fs, call.file_path)
            b == realpath(fs, call.base_dir)
        IN  /\ call.ret.kind = "path" =>
                   /\ c.ok /\ b.ok
                   /\ Within(c.path, b.path)
                   /\ call.ret.path = c.path
                   /\ IsCanonical(fs, call.ret.path)
            /\ (c.ok /\ b.ok /\ ~Within(c.path, b.path)) => call.ret.kind = "None"

\* a candidate accepted although, as a string, it is not below the base
C7_Witness ==
    /\ IsGuardCall
    /\ call.ret.kind = "path"
    /\ ~Within(call.file_path, call.base_dir)
    /\ call.ret.path # call.file_path

\* C9 as stated: a symbolic link inside the root that leads outside is rejected, and a
\* symbolic link outside the root that leads inside is rejected too.
C9_RejectsSymlinksBothWays ==
    (IsGuardCall /\ CandidateIsLink(fs, call.file_path) /\ realpath(fs, call.base_dir).ok) =>
        LET b == realpath(fs, call.base_dir).path
            at == LinkLocation(fs, call.file_path)
            to == realpath(fs, call.file_path)
        IN  /\ (Within(at, b) /\ to.ok /\ ~Within(to.path, b)) => call.ret.kind = "None"
            /\ (~Within(at, b) /\ to.ok /\ Within(to.path, b)) => call.ret.kind = "None"

\* C9 as the code has it: a symbolic link inside the root that leads outside is
\* rejected; a symbolic link outside the root that leads inside is accepted, and the
\* path returned is the resolved target inside the root.
C9_SymlinksJudgedByTarget ==
    (IsGuardCall /\ CandidateIsLink(fs, call.file_path) /\ realpath(fs, call.base_dir).ok) =>
        LET b == realpath(fs, call.base_dir).path
            at == LinkLocation(fs, call.file_path)
            to == realpath(fs, call.file_path)
        IN  /\ (Within(at, b) /\ to.ok /\ ~Within(to.path, b)) => call.ret.kind = "None"
            /\ (~Within(at, b) /\ to.ok /\ Within(to.path, b)) =>
                   /\ call.ret.kind = "path"
                   /\ call.ret.path = to.path
                   /\ Within(call.ret.path, b)

\* a symbolic link inside the root leading outside it, rejected
C9_Witness ==
    /\ IsGuardCall
    /\ CandidateIsLink(fs, call.file_path)
    /\ realpath(fs, call.base_dir).ok
    /\ Within(LinkLocation(fs, call.file_path), realpath(fs, call.base_dir).path)
    /\ realpath(fs, call.file_path).ok
    /\ ~Within(realpath(fs, call.file_path).path, realpath(fs, call.base_dir).path)
    /\ call.ret.kind = "None"

\* C10: no exception leaves _validate_and_resolve_input_path: a candidate that does not
\* exist, dangles, cannot be resolved or resolves outside the root yields None.
C10_NeverRaises ==
    IsGuardCall =>
        /\ call.ret.kind # "raise"
        /\ (\/ ~realpath(fs, call.file_path).ok
            \/ ~realpath(fs, call.base_dir).ok
            \/ ~Within(realpath(fs, call.file_path).path, realpath(fs, call.base_dir).path))
               => call.ret.kind = "None"

----------------------------------------------------------------------------
(* Properties of the loaders.                                              *)

IsLoadCall == call.fn \in {"load_current_results", "load_historical_results"}

ListedDirs == {call.listed[i] : i \in 1..Len(call.listed)}
OpenedFiles == {call.opened[i] : i \in 1..Len(call.opened)}
Warnings == {call.warnings[i] : i \in 1..Len(call.warnings)}

\* the file resolves, to a place outside the directory it was listed in
Escapes(json_file) ==
    /\ realpath(fs, json_file).ok
    /\ ~Within(realpath(fs, json_file).path, realpath(fs, Front(json_file)).path)

\* the file resolves inside the directory it was listed in, to a well-formed document
IsLegitimate(json_file) ==
    /\ realpath(fs, json_file).ok
    /\ Within(realpath(fs, json_file).path, realpath(fs, Front(json_file)).path)
    /\ Lookup(fs, realpath(fs, json_file).path).kind = "file"
    /\ Lookup(fs, realpath(fs, json_file).path).content.valid
    /\ Lookup(fs, realpath(fs, json_file).path).content.type = "object"

\* the document of the file is in what the loader returned
IsLoaded(json_file) ==
    \E i \in 1..Len(call.ret) :
        /\ call.ret[i].config = _extract_config_name(json_file)
        /\ call.ret[i].metrics =
               _parse_benchmark_data(Lookup(fs, realpath(fs, json_file).path).content.data)
        /\ call.fn = "load_historical_results" =>
               call.ret[i].date = strptime(Last(Front(json_file))).day

\* no file is opened at a place outside the directory it was listed in
NoEscapeOpened ==
    \A o \in OpenedFiles : Within(o.path, realpath(fs, Front(o.via)).path)

\* C8: in both loaders no file that resolves outside the directory it was listed in is
\* opened; each such file gets the warning of a skip, and every legitimate file of the
\* same directory is loaded.
C8_EscapesSkippedOthersLoaded ==
    IsLoadCall =>
        /\ NoEscapeOpened
        /\ \A d \in ListedDirs : \A f \in GlobJson(fs, d) :
               /\ Escapes(f) =>
                      /\ [kind |-> "outside", path |-> f] \in Warnings
                      /\ \A o \in OpenedFiles : o.via # f
               /\ IsLegitimate(f) => IsLoaded(f)

----------------------------------------------------------------------------
(* Properties of the output path guard.                                    *)

IsOutputCall == call.fn = "_validate_output_path"

\* where the output path leads once its symbolic links and ".." are resolved; FALSE in
\* .ok for a path through a symbolic link loop
ResolvedOutput ==
    JoinRealPathLax(call.before, RootPath,
                    IF call.file_path.abs THEN call.file_path.parts
                    ELSE Cwd \o call.file_path.parts, {})

InsideCwd == ResolvedOutput.ok /\ Within(ResolvedOutput.path, Cwd)
OutsideCwd == ResolvedOutput.ok /\ ~Within(ResolvedOutput.path, Cwd)
Accepted == call.ret.kind = "path"

\* the directories the output path lies in
ParentsOf(path) == {SubSeq(path, 1, k) : k \in 0..(Len(path) - 1)}

\* one of the directories the output path lies in is there and is no directory
BlockedParent == \E q \in ParentsOf(ResolvedOutput.path) : Lookup(call.before, q).kind = "file"

\* every directory the returned path lies in is a directory
ParentsExist == \A q \in ParentsOf(call.ret.path) : Lookup(fs, q).kind = "dir"

\* the nodes of the file system that the call made or changed
Touched == {q \in DOMAIN fs : Lookup(call.before, q) # fs[q]}

----------------------------------------------------------------------------
(* Properties of the historical walk.                                      *)

IsHistoricalCall == call.fn = "load_historical_results"

\* the real directories under the historical root whose name is a date
DayDirs ==
    {d \in Entries(fs, HistoricalDir) : Lookup(fs, d).kind = "dir" /\ strptime(Last(d)).ok}

\* every *.json of the directory is a well-formed document of the directory
IsCleanDir(d) == \A f \in GlobJson(fs, d) : IsLegitimate(f)

\* the walk has loaded every document of the directory
IsDayLoaded(d) == \A f \in GlobJson(fs, d) : IsLoaded(f)

\* C12: every day directory that is not older than the cutoff contributes its valid
\* documents, whatever the names of the other directories: the stop at the first
\* directory older than the cutoff never drops a day inside the window.
C12_InWindowDaysLoaded ==
    IsHistoricalCall =>
        \A d \in DayDirs :
            (IsCleanDir(d) /\ ~BeforeCutoff(strptime(Last(d)).day, call.now)) => IsDayLoaded(d)

\* C13: a day directory dated exactly today - historical_days is loaded and does not
\* stop the walk, whatever the time of day of the run; only directories of an earlier
\* calendar day are outside the window.
C13_BoundaryDayLoaded ==
    IsHistoricalCall =>
        \A d \in DayDirs :
            (/\ IsCleanDir(d)
             /\ strptime(Last(d)).day = call.now.day - HistoricalDays
             /\ \A o \in DayDirs : Last(o) # Unpadded) => IsDayLoaded(d)

\* the file resolves inside the directory it was listed in, to a file json.load fails on
IsMalformed(json_file) ==
    /\ realpath(fs, json_file).ok
    /\ Within(realpath(fs, json_file).path, realpath(fs, Front(json_file)).path)
    /\ Lookup(fs, realpath(fs, json_file).path).kind = "file"
    /\ ~Lookup(fs, realpath(fs, json_file).path).content.valid

\* C14: in load_historical_results a document that fails to parse is warned about and
\* skipped, and every well-formed document of the directories the walk reads, the
\* directory of the failing document included, is loaded.
C14_HistoricalFailuresIsolated ==
    IsHistoricalCall =>
        \A d \in ListedDirs : \A f \in GlobJson(fs, d) :
            /\ IsMalformed(f) => \E w \in Warnings : w.kind = "failed" /\ w.path = d
            /\ (IsLegitimate(f) /\ \E g \in GlobJson(fs, d) : IsMalformed(g)) => IsLoaded(f)

----------------------------------------------------------------------------
(* Properties of load_current_results and of run.                          *)

IsCurrentCall == call.fn = "load_current_results"

\* the file resolves inside the directory it was listed in, to valid JSON that is no object
IsNotObject(json_file) ==
    /\ realpath(fs, json_file).ok
    /\ Within(realpath(fs, json_file).path, realpath(fs, Front(json_file)).path)
    /\ Lookup(fs, realpath(fs, json_file).path).kind = "file"
    /\ Lookup(fs, realpath(fs, json_file).path).content.valid
    /\ Lookup(fs, realpath(fs, json_file).path).content.type # "object"

\* the file is warned about and no configuration is stored for it
IsReportedAndSkipped(json_file) ==
    /\ [kind |-> "failed", path |-> json_file] \in Warnings
    /\ _extract_config_name(json_file) \notin DictKeys(call.ret)

\* C15: in load_current_results a document that is malformed JSON, or valid JSON that is
\* no object, is warned about and skipped, and every well-formed sibling is loaded under
\* its configuration name, in whatever order the files are listed.
C15_CurrentFailuresIsolated ==
    IsCurrentCall =>
        \A f \in GlobJson(fs, ResDir) :
            /\ (IsMalformed(f) \/ IsNotObject(f)) => IsReportedAndSkipped(f)
            /\ IsLegitimate(f) => IsLoaded(f)

\* C16: when load_current_results yields no configuration (no document found, or every
\* document skipped or failed), run writes the 'no data' report to the validated output
\* path and returns without raising.
C16_NoDataReportWritten ==
    (IsCurrentCall /\ \A f \in GlobJson(fs, ResDir) : ~IsLegitimate(f)) =>
        /\ pc = "returned"
        /\ Lookup(fs, safe_output_file.path) = FileNode(NoDataReport)

----------------------------------------------------------------------------
(* Properties of the baseline calculator.                                  *)

IsBaselineCall == call.fn = "calculate_baseline"

\* the values of the metric in the historical records of the configuration, in order
MatchingValues(config, operation, metric) ==
    LET matching == SelectSeq(historical_results,
                              LAMBDA r : r.config = config /\ metric \in DOMAIN r.metrics[operation])
    IN  [i \in 1..Len(matching) |-> matching[i].metrics[operation][metric]]

\* m is the median of V: the middle of V put in ascending order, the mean of the two
\* middle values when their number is even
IsMedianOf(m, V) ==
    \E p \in Permutations(1..Len(V)) :
        /\ \A i \in 1..(Len(V) - 1) : V[p[i]] <= V[p[i + 1]]
        /\ IF Len(V) % 2 = 1 THEN REq(m, Rat(V[p[(Len(V) + 1) \div 2]]))
           ELSE REq(m, <<V[p[Len(V) \div 2]] + V[p[Len(V) \div 2 + 1]], 2>>)

RECURSIVE SquaredDeviations(_, _, _)
SquaredDeviations(V, total, i) ==
    IF i > Len(V) THEN 0
    ELSE (Len(V) * V[i] - total) * (Len(V) * V[i] - total) + SquaredDeviations(V, total, i + 1)

\* q is the sample variance of V: the squared deviations from the mean, over n - 1
IsSampleVarianceOf(q, V) ==
    REq(q, <<SquaredDeviations(V, Sum(V), 1), Len(V) * Len(V) * (Len(V) - 1)>>)

SpecExample == <<100, 102, 98, 101>>

\* C17: calculate_baseline returns the median of the matching historical values and
\* their sample (n - 1) standard deviation, and for one value that value and 0; for
\* [100, 102, 98, 101] the median is 100.5 and the stddev rounds to 1.71, and a current
\* value of 80 at threshold 0.15 is a significant regression.
C17_MedianAndSampleStdev ==
    /\ IsBaselineCall =>
           LET V == MatchingValues(call.config, call.operation, call.metric) IN
           /\ Len(V) = 0 <=> call.ret = NoBaseline
           /\ Len(V) >= 1 => IsMedianOf(call.ret[1], V)
           /\ Len(V) = 1 => call.ret = <<Rat(V[1]), ZeroStddev>>
           /\ Len(V) > 1 => IsSampleVarianceOf(call.ret[2].sq, V)
           /\ V = SpecExample =>
                  /\ REq(call.ret[1], <<201, 2>>)
                  /\ RLt(<<341 * 341, 200 * 200>>, call.ret[2].sq)
                  /\ RLt(call.ret[2].sq, <<343 * 343, 200 * 200>>)
    /\ (/\ pc = "classified"
        /\ MatchingValues(<<"memory">>, "create", "throughput") = SpecExample
        /\ current_results[1].metrics.create.throughput = 80) =>
           \E e \in EntriesIn("detected") :
               e.config = <<"memory">> /\ e.operation = "create" /\ e.significant

\* the baseline of the example was computed and the run of 80 classified
C17_Witness ==
    /\ IsBaselineCall
    /\ call.config = <<"memory">>
    /\ call.operation = "create"
    /\ MatchingValues(<<"memory">>, "create", "throughput") = SpecExample
    /\ Len(historical_results) = 4
    /\ pc = "classified"
    /\ current_results[1].metrics.create.throughput = 80
    /\ regressions.detected # <<>>

\* the historical records in the order p
Permuted(p) == [i \in 1..Len(historical_results) |-> historical_results[p[i]]]

\* C18: calculate_baseline returns the same (median, stddev) for every permutation of
\* historical_results, and detect_regressions the same classification.
C18_OrderOfHistoryIrrelevant ==
    \A p \in Permutations(1..Len(historical_results)) :
        /\ IsBaselineCall =>
               calculate_baseline(Permuted(p), call.config, call.operation, call.metric) = call.ret
        /\ pc = "classified" =>
               detect_regressions(current_results, Permuted(p), regression_threshold) = regressions

\* a history that is not in ascending order, with a record of another configuration in it
C18_Witness ==
    /\ IsBaselineCall
    /\ call.config = <<"memory">>
    /\ call.operation = "create"
    /\ pc = "classified"
    /\ MatchingValues(<<"memory">>, "create", "throughput") = <<102, 98, 100>>
    /\ Len(historical_results) = 4
    /\ regressions.detected # <<>>

----------------------------------------------------------------------------
(* Properties of the entries detect_regressions makes.                     *)

\* C19: an entry has the significant flag if and only if it is in 'detected', and it
\* has change_pct unless its status is no_baseline.
C19_FieldsByStatus ==
    pc = "classified" =>
        \A l \in Lists : \A e \in EntriesIn(l) :
            /\ "significant" \in DOMAIN e <=> l = "detected"
            /\ "change_pct" \in DOMAIN e <=> ~IsNoBaselineEntry(e)

\* a regression and an entry without baseline in one output
C19_Witness ==
    /\ pc = "classified"
    /\ \E e \in EntriesIn("detected") : ~e.significant
    /\ \E e \in EntriesIn("stable") : IsNoBaselineEntry(e)

\* the statuses given to a current record in an output of detect_regressions
StatusesIn(output, r) ==
    {l \in Lists : \E i \in 1..Len(output[l]) :
        output[l][i].config = r[1] /\ output[l][i].operation = r[2]}

\* the other history has the same median for the record, whatever its stddev
SameMedian(other, r) ==
    /\ BaselineOf(r[1], r[2]) # NoBaseline
    /\ calculate_baseline(other, r[1], r[2], "throughput") # NoBaseline
    /\ REq(BaselineOf(r[1], r[2])[1], calculate_baseline(other, r[1], r[2], "throughput")[1])

\* C20: the status of a record depends on the current value, the baseline median and
\* the threshold only: a history with the same median and another stddev gives every
\* record the same status, and a regression that is not significant is in 'detected'.
C20_StatusIgnoresStddev ==
    pc = "classified" =>
        /\ \A r \in CurrentRecords : \A other \in AlternativeHistories :
               SameMedian(other, r) =>
                   StatusesIn(detect_regressions(current_results, other, regression_threshold), r)
                       = StatusesIn(regressions, r)
        /\ \A r \in CurrentRecords :
               LET m == CurrentMetric(r)
                   b == BaselineOf(r[1], r[2])
               IN  (/\ Truthy(Get(m, "samples", 0))
                    /\ Get(m, "throughput", 0) # 0
                    /\ b # NoBaseline
                    /\ ~RIsZero(b[1])
                    /\ IsRegression(ChangePct(m.throughput, b[1]), regression_threshold)
                    /\ ~_test_significance(Rat(m.throughput), b[1], b[2]))
                   => \E e \in EntriesOf("detected", r[1], r[2]) : ~e.significant

\* a regression that is not significant, and a history with the same median and another
\* stddev
C20_Witness ==
    /\ pc = "classified"
    /\ \E e \in EntriesIn("detected") :
           /\ ~e.significant
           /\ \E other \in AlternativeHistories :
                  /\ SameMedian(other, <<e.config, e.operation>>)
                  /\ calculate_baseline(other, e.config, e.operation, "throughput")[2]
                         # BaselineOf(e.config, e.operation)[2]

----------------------------------------------------------------------------
(* Properties of a second classification.                                  *)

IsSecondDetect == call.fn = "detect_regressions"

----------------------------------------------------------------------------
(* Properties of the normalizer.                                           *)

IsParseCall == call.fn = "_parse_benchmark_data"

SingularKeys == {"create", "read", "update", "delete"}
PluralKeys == {operation_map[k] : k \in SingularKeys}

\* the document with every singular key renamed to its plural
Pluralized(data) ==
    [k \in {operation_map[j] : j \in DOMAIN data \cap SingularKeys} |->
        data[CHOOSE j \in SingularKeys : operation_map[j] = k]]

\* C22: a document keyed by the singular operation names yields the same
\* populated metrics as the same document keyed by the plural names.
C22_SingularSameAsPlural ==
    (IsParseCall /\ DOMAIN call.data \subseteq SingularKeys) =>
        call.ret = _parse_benchmark_data(Pluralized(call.data))

\* the operation object with 'ops' read as throughput and 'q50' microseconds as p50_ns
Canonical(op_data) ==
    [f \in (DOMAIN op_data \ {"ops", "q50"})
           \cup {g \in {"throughput"} : "ops" \in DOMAIN op_data}
           \cup {g \in {"p50_ns"} : "q50" \in DOMAIN op_data} |->
        IF f = "throughput" /\ "ops" \in DOMAIN op_data THEN op_data["ops"]
        ELSE IF f = "p50_ns" /\ "q50" \in DOMAIN op_data THEN op_data["q50"] * 1000
        ELSE op_data[f]]

\* C23: a document that gives throughput as 'ops' and the median latency as 'q50' in
\* microseconds is normalized to the record of the same document with 'throughput' and
\* 'p50_ns' = q50 * 1000.
C23_FieldVariantsNormalized ==
    (IsParseCall /\ DOMAIN call.data \subseteq PluralKeys) =>
        call.ret = _parse_benchmark_data([k \in DOMAIN call.data |-> Canonical(call.data[k])])

----------------------------------------------------------------------------
(* Properties of the configuration names.                                  *)

\* the file name without its leading 'result-' and without its extension
WithoutPrefixAndExtension(json_file) ==
    LET name == Last(json_file) IN SubSeq(name, 2, Len(name) - 1)

\* C24: the configuration name of a result file is its file name with only the leading
\* 'result-' and the extension removed, so the distinct files result-<a>.json and
\* result-<b>.json of one directory never yield the same configuration name.
C24_ConfigNamesDistinct ==
    IsCurrentCall =>
        /\ \A o \in OpenedFiles : WithoutPrefixAndExtension(o.via) \in DictKeys(call.ret)
        /\ Cardinality(DictKeys(call.ret)) = Cardinality({o.via : o \in OpenedFiles})

----------------------------------------------------------------------------
(* Properties of the historical walk.                                      *)

\* the entries of the historical root the walk examines: directories that resolve
\* inside the root
WalkDirs ==
    {d \in Entries(fs, HistoricalDir) :
        /\ is_dir(fs, d)
        /\ Within(realpath(fs, d).path, realpath(fs, HistoricalDir).path)}

\* the place of a directory in the ascending order of the names
NamePlace(d) == Position(NamesAscending, Last(d))

\* midnight of the day is strictly older than the cutoff, now - historical_days
IsOlderThanCutoff(day) ==
    \/ day < call.now.day - HistoricalDays
    \/ day = call.now.day - HistoricalDays /\ ~call.now.midnight

\* an examined directory whose name is a date strictly older than the cutoff
IsStop(d) ==
    d \in WalkDirs /\ strptime(Last(d)).ok /\ IsOlderThanCutoff(strptime(Last(d)).day)

\* a file of the directory was opened
IsOpenedDir(d) == \E o \in OpenedFiles : Front(o.via) = d

\* C25: the historical walk visits the directories in descending name order and stops
\* at the first directory strictly older than the cutoff: that directory and every
\* directory after it is neither listed nor opened, every dated directory before it is
\* listed, and the date of every returned record is not older than the cutoff.
C25_WalkStopsAtCutoff ==
    IsHistoricalCall =>
        /\ \A i, j \in 1..Len(call.listed) :
               i < j => NamePlace(call.listed[i]) > NamePlace(call.listed[j])
        /\ \A s \in WalkDirs : IsStop(s) =>
               \A d \in Entries(fs, HistoricalDir) :
                   NamePlace(d) <= NamePlace(s) => d \notin ListedDirs /\ ~IsOpenedDir(d)
        /\ \A d \in WalkDirs :
               (/\ strptime(Last(d)).ok
                /\ \A s \in WalkDirs : IsStop(s) => NamePlace(s) < NamePlace(d))
               => d \in ListedDirs
        /\ \A i \in 1..Len(call.ret) : ~IsOlderThanCutoff(call.ret[i].date)

\* a run later in the day: 2024-03-10 and 2024-03-09 are read, the walk stops at
\* 2024-02-09, and 2024-01-05 with its document is never listed
C25_Witness ==
    /\ IsHistoricalCall
    /\ ~call.now.midnight
    /\ call.listed = <<Append(HistoricalDir, Today), Append(HistoricalDir, Yesterday)>>
    /\ IsStop(Append(HistoricalDir, Boundary))
    /\ Lookup(fs, <<ResultsName, LongAgo, FileA>>).kind = "file"
    /\ \E i \in 1..Len(call.ret) : call.ret[i].date = strptime(Yesterday).day
    /\ \A o \in OpenedFiles : Front(o.via) \in ListedDirs

\* an examined directory whose name is no date
IsUndated(d) == d \in WalkDirs /\ ~strptime(Last(d)).ok

\* C26: a directory whose name is no valid date is skipped with a warning: none of its
\* files is opened, it is never the stop of the walk, and the dated directories after it
\* are examined as they are without it.
C26_UndatedDirSkipped ==
    IsHistoricalCall =>
        \A u \in WalkDirs : IsUndated(u) =>
            /\ [kind |-> "failed", path |-> u] \in Warnings
            /\ u \notin ListedDirs /\ ~IsOpenedDir(u)
            /\ \A d \in WalkDirs :
                   (/\ NamePlace(d) < NamePlace(u)
                    /\ strptime(Last(d)).ok
                    /\ \A s \in WalkDirs : IsStop(s) => NamePlace(s) < NamePlace(d))
                   => d \in ListedDirs /\ (IsCleanDir(d) => IsDayLoaded(d))

\* 'latest' holds a document and comes first; 2024-03-10 after it is read
C26_Witness ==
    /\ IsHistoricalCall
    /\ IsUndated(Append(HistoricalDir, Latest))
    /\ Lookup(fs, <<ResultsName, Latest, FileA>>).kind = "file"
    /\ Append(HistoricalDir, Today) \in ListedDirs
    /\ IsCleanDir(Append(HistoricalDir, Today))
    /\ \E i \in 1..Len(call.ret) : call.ret[i].date = strptime(Today).day

\* the file resolves into a day directory of the historical root other than the
\* resolved directory it was enumerated from
ResolvesIntoOtherDay(json_file) ==
    /\ realpath(fs, json_file).ok
    /\ ~Within(realpath(fs, json_file).path, realpath(fs, Front(json_file)).path)
    /\ \E other \in Entries(fs, HistoricalDir) :
           /\ Lookup(fs, other).kind = "dir"
           /\ Within(realpath(fs, json_file).path, other)

\* C27: every file of the historical walk is authorized against the resolved day
\* directory it was enumerated from: a file that is opened resolves inside that
\* directory, and a file of one day that resolves into another day is skipped with a
\* warning and never opened, so that every record comes from a file of its own day.
C27_FilesAuthorizedAgainstOwnDay ==
    IsHistoricalCall =>
        /\ \A o \in OpenedFiles :
               /\ Front(o.via) \in ListedDirs
               /\ o.path = realpath(fs, o.via).path
               /\ Within(o.path, realpath(fs, Front(o.via)).path)
        /\ \A d \in ListedDirs : \A f \in GlobJson(fs, d) :
               ResolvesIntoOtherDay(f) =>
                   /\ [kind |-> "outside", path |-> f] \in Warnings
                   /\ \A o \in OpenedFiles : o.via # f
        /\ Len(call.ret) <= Len(call.opened)
        /\ \A i \in 1..Len(call.ret) :
               \E o \in OpenedFiles : strptime(Last(Front(o.via))).day = call.ret[i].date

\* result-a.json of 2024-03-09 is a link to result-b.json of 2024-03-10: it is skipped,
\* and the only record of result-b.json is the one of 2024-03-10
C27_Witness ==
    /\ IsHistoricalCall
    /\ ResolvesIntoOtherDay(<<ResultsName, Yesterday, FileA>>)
    /\ Append(HistoricalDir, Yesterday) \in ListedDirs
    /\ [kind |-> "outside", path |-> <<ResultsName, Yesterday, FileA>>] \in Warnings
    /\ \E o \in OpenedFiles : o.via = <<ResultsName, Today, FileB>>
    /\ \A i \in 1..Len(call.ret) : call.ret[i].date = strptime(Today).day

----------------------------------------------------------------------------
(* Properties of run.                                                      *)

IsRun == call.fn = "run"

\* run has taken the step
Did(name) == \E i \in 1..Len(call.events) : call.events[i] = name

\* the one step comes before the other in the run
Before(first, second) ==
    \E i, j \in 1..Len(call.events) :
        i < j /\ call.events[i] = first /\ call.events[j] = second

\* run has raised out of the validation of its output paths
IsRejected == IsRun /\ pc = "raised" /\ ~Did("load_current_results")

\* the nodes of the file system that run made or changed
RunTouched == {q \in DOMAIN fs : Lookup(call.before, q) # fs[q]}

\* run has read no input yet
NothingRead == call.opened = <<>> /\ current_results = <<>> /\ historical_results = <<>>

\* the output paths are validated before the current results are loaded
ValidatedBeforeLoading ==
    Did("load_current_results") =>
        /\ Before("validate_output", "load_current_results")
        /\ call.json_output_file # NoPath =>
               Before("validate_json_output", "load_current_results")

\* C28 (as stated): run validates the markdown and the JSON output path before it reads
\* any input; when either is rejected, run raises without having read any result file,
\* written any report or created any directory.
C28_RejectedRunLeavesNothing ==
    IsRun =>
        /\ ValidatedBeforeLoading
        /\ IsRejected => (NothingRead /\ fs = call.before)

\* C28 (amended): run validates both output paths before it reads any input; when
\* either is rejected, run raises without having read any result file or written any
\* file, and without a directory made for the rejected path: when the markdown path is
\* rejected the file system is as before, and when the JSON path is rejected the only
\* nodes made are the missing parent directories of the accepted markdown path.
C28_RejectedRunLeavesOnlyMarkdownParents ==
    IsRun =>
        /\ ValidatedBeforeLoading
        /\ IsRejected =>
               /\ NothingRead
               /\ \A q \in RunTouched :
                      /\ fs[q] = DirNode
                      /\ Lookup(call.before, q) = NoNode
                      /\ safe_output_file.kind = "path"
                      /\ q \in ParentsOf(safe_output_file.path)
               /\ ~Did("validate_json_output") => fs = call.before

\* the markdown path new/report.md is accepted and /work/new made, then the JSON path
\* /out/analysis.json is rejected, with a result file waiting in /res
C28_Witness ==
    /\ IsRejected
    /\ call.output_file = Relative(<<NewName, ReportName>>)
    /\ call.json_output_file = Absolute(<<OutName, JsonName>>)
    /\ call.events = <<"validate_output", "validate_json_output">>
    /\ RunTouched = {<<WorkName, NewName>>}
    /\ Lookup(fs, <<ResName, FileA>>) = FileNode(Json(DocA))
    /\ NothingRead

\* C29: when no current results are loaded, run ends after the 'no data' markdown
\* report: it loads no historical results, classifies nothing and never writes the JSON
\* output, even when a JSON output path was given, and when it returns the markdown path
\* holds the 'no data' report; in every other run the markdown report is written before
\* the JSON output.
C29_NoDataRunEndsEarly ==
    IsRun =>
        /\ (Did("load_current_results") /\ current_results = <<>>) =>
               /\ pc \in {"returned", "raised"}
               /\ ~Did("load_historical_results") /\ historical_results = <<>>
               /\ ~Did("detect_regressions") /\ regressions = NoRegressions
               /\ ~Did("write_report") /\ ~Did("write_json")
               /\ \A o \in OpenedFiles : Front(o.via) = ResDir
               /\ \A q \in RunTouched :
                      \/ q = safe_output_file.path /\ fs[q] = FileNode(NoDataReport)
                      \/ fs[q] = DirNode
               /\ pc = "returned" =>
                      /\ Lookup(fs, safe_output_file.path) = FileNode(NoDataReport)
                      /\ call.events[Len(call.events)] = "write_no_data"
        /\ Did("write_json") =>
               /\ Before("write_report", "write_json")
               /\ Before("detect_regressions", "write_report")
               /\ current_results # <<>>
        /\ Did("write_no_data") => current_results = <<>>

\* no result file in /res and the JSON path deep/analysis.json given: /work/deep is made,
\* the 'no data' report is written, run returns and there is no JSON output
C29_Witness ==
    /\ IsRun
    /\ pc = "returned"
    /\ current_results = <<>>
    /\ call.safe_json_output_file.kind = "path"
    /\ call.safe_json_output_file.path = <<WorkName, DeepName, JsonName>>
    /\ Lookup(fs, <<WorkName, DeepName>>) = DirNode
    /\ Lookup(fs, <<WorkName, DeepName, JsonName>>) = NoNode
    /\ Lookup(fs, safe_output_file.path) = FileNode(NoDataReport)
    /\ ~Did("load_historical_results")

----------------------------------------------------------------------------
(* Properties of the classifier over figures of either sign.               *)

\* C30: for every threshold >= 0 and every parsed figure, the zero and the negative
\* historical throughputs included, an entry of 'detected' has its current throughput
\* strictly below its baseline throughput, and an entry of 'improvements' has it
\* strictly above.
C30_ListMatchesDirection ==
    pc = "classified" =>
        /\ \A e \in EntriesIn("detected") :
               RLt(Rat(e.current_throughput), e.baseline_throughput)
        /\ \A e \in EntriesIn("improvements") :
               RLt(e.baseline_throughput, Rat(e.current_throughput))

====
